---- MODULE Spec2Model ----
(***************************************************************************)
(* albucore: dtype-correct elementwise arithmetic over image buffers.      *)
(*                                                                         *)
(* The model is a call/return machine.  The caller owns the buffers of the *)
(* heap; one action per public operation performs the whole call (operand  *)
(* canonicalisation, backend dispatch, arithmetic, clipping) and records   *)
(* the outcome.                                                            *)
(*                                                                         *)
(* Numbers.  Every element is a dyadic rational [neg, mant, exp] meaning   *)
(* (+/-) mant * 2^exp, kept normalised (mant odd, or zero), so that equal  *)
(* numbers are equal values.  mant is a natural number wider than the      *)
(* checker's 32-bit integers (uint32 elements, float32 products): a        *)
(* little-endian sequence of 15-bit limbs.  float32/float64 results are    *)
(* the exact result rounded to 24/53 significant bits, ties to even, as    *)
(* IEEE-754 does (exponent range not modelled: no value here leaves it).   *)
(***************************************************************************)
EXTENDS Integers, Sequences, FiniteSets, TLC

\* ------------------------------------------------------------------------
\* Wide naturals
\* ------------------------------------------------------------------------
LimbBase == 2^15

RECURSIVE BNorm(_)
BNorm(a) ==
    IF a = <<>> THEN a
    ELSE IF a[Len(a)] = 0 THEN BNorm(SubSeq(a, 1, Len(a) - 1)) ELSE a

RECURSIVE BOfNat(_)
BOfNat(n) == IF n = 0 THEN <<>> ELSE <<n % LimbBase>> \o BOfNat(n \div LimbBase)

RECURSIVE BAddC(_, _, _)
BAddC(a, b, c) ==
    IF a = <<>> /\ b = <<>> THEN (IF c = 0 THEN <<>> ELSE <<c>>)
    ELSE LET x == IF a = <<>> THEN 0 ELSE Head(a)
             y == IF b = <<>> THEN 0 ELSE Head(b)
             s == x + y + c
         IN  <<s % LimbBase>>
                \o BAddC(IF a = <<>> THEN a ELSE Tail(a),
                         IF b = <<>> THEN b ELSE Tail(b), s \div LimbBase)

BAdd(a, b) == BNorm(BAddC(a, b, 0))

RECURSIVE BSubB(_, _, _)
BSubB(a, b, br) ==
    IF a = <<>> THEN <<>>
    ELSE LET y == IF b = <<>> THEN 0 ELSE Head(b)
             d == Head(a) - y - br
         IN  <<d % LimbBase>>
                \o BSubB(Tail(a), IF b = <<>> THEN b ELSE Tail(b),
                         IF d < 0 THEN 1 ELSE 0)

\* a - b for a >= b
BSub(a, b) == BNorm(BSubB(a, b, 0))

RECURSIVE BCmpAt(_, _, _)
BCmpAt(a, b, i) ==
    IF i = 0 THEN 0
    ELSE IF a[i] > b[i] THEN 1
    ELSE IF a[i] < b[i] THEN -1
    ELSE BCmpAt(a, b, i - 1)

\* -1, 0, 1 as a < b, a = b, a > b (both normalised)
BCmp(a, b) ==
    IF Len(a) > Len(b) THEN 1
    ELSE IF Len(a) < Len(b) THEN -1
    ELSE BCmpAt(a, b, Len(a))

RECURSIVE BMulS(_, _, _)
BMulS(a, k, c) ==
    IF a = <<>> THEN (IF c = 0 THEN <<>> ELSE <<c>>)
    ELSE LET p == Head(a) * k + c
         IN  <<p % LimbBase>> \o BMulS(Tail(a), k, p \div LimbBase)

RECURSIVE BMul(_, _)
BMul(a, b) ==
    IF a = <<>> \/ b = <<>> THEN <<>>
    ELSE BNorm(BAddC(BMulS(a, Head(b), 0), <<0>> \o BMul(a, Tail(b)), 0))

\* a * 2^n
BShl(a, n) ==
    IF a = <<>> THEN a
    ELSE [i \in 1..(n \div 15) |-> 0] \o BMulS(a, 2^(n % 15), 0)

\* floor(a / 2^n)
BShr(a, n) ==
    LET q == n \div 15
        r == n % 15
        d == IF q >= Len(a) THEN <<>> ELSE SubSeq(a, q + 1, Len(a))
    IN  BNorm([i \in 1..Len(d) |->
                 (d[i] \div 2^r)
                 + (IF i < Len(d) THEN (d[i + 1] % 2^r) * 2^(15 - r) ELSE 0)])

RECURSIVE NatBitLen(_)
NatBitLen(n) == IF n = 0 THEN 0 ELSE 1 + NatBitLen(n \div 2)

BBitLen(a) == IF a = <<>> THEN 0 ELSE 15 * (Len(a) - 1) + NatBitLen(a[Len(a)])

\* bit i (from 0) of a
BBit(a, i) ==
    IF (i \div 15) + 1 > Len(a) THEN 0
    ELSE (a[(i \div 15) + 1] \div 2^(i % 15)) % 2

\* a mod 2^n
BLow(a, n) == BSub(a, BShl(BShr(a, n), n))

RECURSIVE NatTrailingZeros(_)
NatTrailingZeros(n) == IF n % 2 = 1 THEN 0 ELSE 1 + NatTrailingZeros(n \div 2)

\* the number of trailing zero bits of a # 0
RECURSIVE BTrailingZeros(_)
BTrailingZeros(a) ==
    IF Head(a) = 0 THEN 15 + BTrailingZeros(Tail(a))
    ELSE NatTrailingZeros(Head(a))

\* binary long division: qr is <<quotient, remainder>> so far; the k bits of
\* limb below bit position hi are brought down, the highest first
RECURSIVE BDivBits(_, _, _, _, _)
BDivBits(qr, limb, d, hi, k) ==
    IF k = 0 THEN qr
    ELSE LET bit == (limb \div 2^(hi - k)) % 2
             step(q2, r2) ==
                 IF BCmp(r2, d) >= 0 THEN <<BAdd(q2, <<1>>), BSub(r2, d)>>
                 ELSE <<q2, r2>>
             next(prev) ==
                 IF Len(prev) # 2 THEN prev
                 ELSE step(BShl(prev[1], 1),
                           BAdd(BShl(prev[2], 1), IF bit = 1 THEN <<1>> ELSE <<>>))
         IN  next(BDivBits(qr, limb, d, hi, k - 1))

\* the limbs j.. of n divided by d (each intermediate result is tested so
\* that it is computed before the next stage starts)
RECURSIVE BDivLimbs(_, _, _)
BDivLimbs(n, d, j) ==
    IF j > Len(n) THEN <<<<>>, <<>>>>
    ELSE LET low(u2)  == IF Len(u2) # 2 THEN u2 ELSE BDivBits(u2, n[j], d, 5, 5)
             mid(u1)  == IF Len(u1) # 2 THEN u1
                         ELSE low(BDivBits(u1, n[j], d, 10, 5))
             high(u0) == IF Len(u0) # 2 THEN u0
                         ELSE mid(BDivBits(u0, n[j], d, 15, 5))
         IN  high(BDivLimbs(n, d, j + 1))

\* <<floor(n / d), n mod d>> for d # 0
BDivMod(n, d) == BDivLimbs(n, d, 1)

\* the value of a wide natural that fits a plain integer
RECURSIVE BToNat(_)
BToNat(a) == IF a = <<>> THEN 0 ELSE Head(a) + LimbBase * BToNat(Tail(a))

\* ------------------------------------------------------------------------
\* Dyadic rationals
\* ------------------------------------------------------------------------
DyZero == [neg |-> FALSE, mant |-> <<>>, exp |-> 0]

DyMake(neg, m, e) ==
    IF m = <<>> THEN DyZero
    ELSE LET tz == BTrailingZeros(m)
         IN  [neg |-> neg, mant |-> BShr(m, tz), exp |-> e + tz]

\* n * 2^e for a plain integer n
Dy(n, e) == DyMake(n < 0, BOfNat(IF n < 0 THEN -n ELSE n), e)

DyInt(n) == Dy(n, 0)

DyIsZero(a) == a.mant = <<>>

DyNeg(a) == IF DyIsZero(a) THEN a ELSE [a EXCEPT !.neg = ~a.neg]

DyAdd(a, b) ==
    LET e == IF a.exp < b.exp THEN a.exp ELSE b.exp
        sum(ma, mb) ==
            IF a.neg = b.neg THEN DyMake(a.neg, BAdd(ma, mb), e)
            ELSE IF BCmp(ma, mb) >= 0 THEN DyMake(a.neg, BSub(ma, mb), e)
            ELSE DyMake(b.neg, BSub(mb, ma), e)
    IN  sum(BShl(a.mant, a.exp - e), BShl(b.mant, b.exp - e))

DySub(a, b) == DyAdd(a, DyNeg(b))

DyMul(a, b) == DyMake(a.neg # b.neg, BMul(a.mant, b.mant), a.exp + b.exp)

DyLt(a, b) == DySub(a, b).neg

DyLe(a, b) == ~DyLt(b, a)

DyMin(a, b) == IF DyLt(b, a) THEN b ELSE a

DyMax(a, b) == IF DyLt(a, b) THEN b ELSE a

DyIsInt(a) == a.exp >= 0

\* round toward zero to an integer
DyTrunc(a) ==
    IF a.exp >= 0 THEN a ELSE DyMake(a.neg, BShr(a.mant, -a.exp), 0)

\* round to the nearest integer, ties to even (np.rint, cv2 saturate_cast)
DyRint(a) ==
    IF a.exp >= 0 THEN a
    ELSE LET half == BBit(a.mant, -a.exp - 1) = 1
             \* mant is odd: the discarded part is exactly one half iff exp = -1
             tie  == a.exp = -1
             round(q) ==
                 DyMake(a.neg,
                        IF half /\ (~tie \/ BBit(q, 0) = 1) THEN BAdd(q, <<1>>)
                        ELSE q, 0)
         IN  round(BShr(a.mant, -a.exp))

\* the mantissa rounded to p significant bits, ties to even
DyRoundBits(a, p) ==
    LET \* q is the mantissa without its sh low bits, c compares those bits
        \* with one half
        round(sh, q, c) ==
            DyMake(a.neg,
                   IF c > 0 \/ (c = 0 /\ BBit(q, 0) = 1) THEN BAdd(q, <<1>>)
                   ELSE q, a.exp + sh)
        drop(sh) == round(sh, BShr(a.mant, sh),
                          BCmp(BLow(a.mant, sh), BShl(<<1>>, sh - 1)))
        fit(n) == IF n <= p THEN a ELSE drop(n - p)
    IN  fit(BBitLen(a.mant))

\* the quotient and remainder qr of a division as a value with a sticky bit
\* under the quotient, rounded to p significant bits
DyQuot(neg, qr, e, p) ==
    DyRoundBits(DyMake(neg,
                       BAdd(BShl(qr[1], 1), IF qr[2] = <<>> THEN <<>> ELSE <<1>>),
                       e - 1), p)

\* n / d correctly rounded to p significant bits (d # 0): n's mantissa is
\* shifted by s so that the quotient has more than p + 1 bits
DyDivRound(n, d, p) ==
    IF DyIsZero(n) THEN DyZero
    ELSE LET gap == p + 2 + BBitLen(d.mant) - BBitLen(n.mant)
             s == IF gap > 0 THEN gap ELSE 0
         IN  DyQuot(n.neg # d.neg, BDivMod(BShl(n.mant, s), d.mant),
                    n.exp - d.exp - s, p)

\* floor(sqrt(n)) by Newton's iteration from x >= sqrt(n): the iterates fall
\* until they reach it
RECURSIVE BSqrtIter(_, _)
BSqrtIter(n, x) ==
    LET next(y) == IF BCmp(y, x) >= 0 THEN x ELSE BSqrtIter(n, y)
        halve(q) == IF Len(q) # 2 THEN x ELSE next(BShr(BAdd(x, q[1]), 1))
    IN  halve(BDivMod(n, x))

\* r = floor(sqrt(n)) as a value with a sticky bit under it, rounded to p
\* significant bits
DyRoot(n, r, e, p) ==
    DyRoundBits(DyMake(FALSE,
                       BAdd(BShl(r, 1),
                            IF BCmp(BMul(r, r), n) = 0 THEN <<>> ELSE <<1>>),
                       e - 1), p)

\* the square root of a >= 0 correctly rounded to p significant bits: the
\* mantissa is shifted by s so that the root has more than p bits and the
\* exponent left is even
DySqrt(a, p) ==
    IF DyIsZero(a) THEN DyZero
    ELSE LET need == 2 * p + 2 - BBitLen(a.mant)
             gap == IF need > 0 THEN need ELSE 0
             s == gap + ((a.exp - gap) % 2)
         IN  DyRoot(BShl(a.mant, s),
                    BSqrtIter(BShl(a.mant, s),
                              BShl(<<1>>, (BBitLen(a.mant) + s + 1) \div 2)),
                    (a.exp - s) \div 2, p)

\* the exact sum of xs[lo..hi]
RECURSIVE DySum(_, _, _)
DySum(xs, lo, hi) ==
    IF lo > hi THEN DyZero
    ELSE IF lo = hi THEN xs[lo]
    ELSE DyAdd(DySum(xs, lo, (lo + hi) \div 2),
               DySum(xs, ((lo + hi) \div 2) + 1, hi))

\* an integer a modulo 2^w (two's complement wrap of an integer cast)
DyWrap(a, w) ==
    LET wrap(low) ==
            DyMake(FALSE,
                   IF ~a.neg \/ low = <<>> THEN low
                   ELSE BSub(BShl(<<1>>, w), low), 0)
    IN  wrap(BLow(BShl(a.mant, a.exp), w))

\* the plain integer a small integral dyadic stands for
DyToInt(a) ==
    LET n == BToNat(BShl(a.mant, a.exp)) IN IF a.neg THEN -n ELSE n

\* ------------------------------------------------------------------------
\* State
\* ------------------------------------------------------------------------
VARIABLES
    build,  \* what the installed numpy/C build does where the code leaves it open
    heap,   \* buffer id -> buffer; 1 is the caller's image, 2 a second operand,
            \* 3 and 4 are buffers the library allocated
    call,   \* the call made: its name and arguments, the image as it was passed
    ret     \* its outcome: the exception raised (or ""), the id of the buffer
            \* returned, the backends that ran

vars == <<build, heap, call, ret>>

\* ------------------------------------------------------------------------
\* Element types
\* ------------------------------------------------------------------------
MAX_OPENCV_WORKING_CHANNELS == 4

TWO == 2

UInt32Max == DySub(Dy(1, 32), DyInt(1))

\* keyed by dtype; "int32" stands for the np.int32 type object, which is a
\* key only as a type, not as a dtype instance
MAX_VALUES_BY_DTYPE ==
    [uint8 |-> DyInt(255), uint16 |-> DyInt(65535), uint32 |-> UInt32Max,
     float16 |-> DyInt(1), float32 |-> DyInt(1), float64 |-> DyInt(1),
     int32 |-> DyInt(2147483647)]

IsFloat(dtype) == dtype \in {"float16", "float32", "float64"}

\* significant bits of a floating type
MantBits(dtype) ==
    CASE dtype = "float16" -> 11 [] dtype = "float32" -> 24 [] OTHER -> 53

\* width of an unsigned integer type
IntBits(dtype) ==
    CASE dtype = "uint8" -> 8 [] dtype = "uint16" -> 16 [] OTHER -> 32

Arr(dtype, shape, data) == [dtype |-> dtype, shape |-> shape, data |-> data]

get_num_channels(img) == img.shape[Len(img.shape)]

\* the channel (from 1) of the i-th element of a C-contiguous buffer
Chan(i, C) == ((i - 1) % C) + 1

\* ------------------------------------------------------------------------
\* numpy primitives
\* ------------------------------------------------------------------------
\* a float converted to an unsigned integer of w bits: C truncates toward zero
\* and leaves the result undefined when the value does not fit; builds either
\* wrap (x86 cvtt + truncation) or saturate (vector/ARM conversions)
CastFloatToUInt(v, w) ==
    LET cvt(t, top) ==
            IF ~t.neg /\ DyLe(t, top) THEN t
            ELSE IF build.cast = "wrap" THEN DyWrap(t, w)
            ELSE IF t.neg THEN DyZero ELSE top
    IN  cvt(DyTrunc(v), DySub(Dy(1, w), DyInt(1)))

\* ndarray.astype, one element: integer to integer wraps modulo 2^w
astype(v, from, to) ==
    IF to = from THEN v
    ELSE IF IsFloat(to) THEN DyRoundBits(v, MantBits(to))
    ELSE IF IsFloat(from) THEN CastFloatToUInt(v, IntBits(to))
    ELSE DyWrap(v, IntBits(to))

\* a Python scalar stored into an array of the given dtype (np.full,
\* np.array(value, dtype)): a Python int that does not fit an integer dtype
\* raises OverflowError under NEP 50 (numpy >= 2) and wraps before; "overflow"
\* tells which elements raise
PyFits(v, pytype, dtype) ==
    IsFloat(dtype) \/ pytype # "int" \/ ~build.nep50
        \/ (~v.neg /\ DyLe(v, DySub(Dy(1, IntBits(dtype)), DyInt(1))))

PyStore(v, pytype, dtype) ==
    IF IsFloat(dtype) THEN DyRoundBits(v, MantBits(dtype))
    ELSE IF pytype = "int" THEN DyWrap(v, IntBits(dtype))
    ELSE CastFloatToUInt(v, IntBits(dtype))

\* np.clip(x, 0, max_value), one element: the bounds take the array's
\* precision when the array is float32
np_clip(v, from, maxv) ==
    LET hi == IF IsFloat(from) THEN DyRoundBits(maxv, MantBits(from)) ELSE maxv
    IN  DyMin(DyMax(v, DyZero), hi)

\* the dtype of np.clip's result
ClipDtype(from, to) ==
    IF IsFloat(from) THEN from ELSE IF IsFloat(to) THEN "float64" ELSE from

\* ------------------------------------------------------------------------
\* Results of a library function: err is the exception raised ("" for none);
\* same tells that the buffer returned is the caller's image itself; mem is
\* the content of the caller's image when the function returns or raises;
\* path lists the backends that ran
\* ------------------------------------------------------------------------
Fresh(img, dtype, data, path) ==
    [err |-> "", same |-> FALSE, dtype |-> dtype, shape |-> img.shape,
     data |-> data, mem |-> img.data, path |-> path]

InPlace(img, data, path) ==
    [err |-> "", same |-> TRUE, dtype |-> img.dtype, shape |-> img.shape,
     data |-> data, mem |-> data, path |-> path]

Raise(img, e, path) ==
    [err |-> e, same |-> FALSE, dtype |-> "none", shape |-> <<>>,
     data |-> <<>>, mem |-> img.data, path |-> path]

\* ------------------------------------------------------------------------
\* utils.py
\* ------------------------------------------------------------------------
\* a clip that overwrites its input whether asked to or not
clip_overwriting(img, dtype, inplace) ==
    IF dtype \notin DOMAIN MAX_VALUES_BY_DTYPE THEN Raise(img, "KeyError", <<>>)
    ELSE LET result(data) == IF img.dtype = dtype THEN InPlace(img, data, <<>>)
                             ELSE Fresh(img, dtype, data, <<>>)
         IN  result([i \in DOMAIN img.data |->
                        astype(np_clip(img.data[i], img.dtype,
                                       MAX_VALUES_BY_DTYPE[dtype]),
                               ClipDtype(img.dtype, dtype), dtype)])

clip(img, dtype, inplace) ==
    IF dtype \notin DOMAIN MAX_VALUES_BY_DTYPE THEN Raise(img, "KeyError", <<>>)
    ELSE LET max_value == MAX_VALUES_BY_DTYPE[dtype]
             mid == ClipDtype(img.dtype, dtype)
             result(data) == IF inplace /\ img.dtype = dtype
                             THEN InPlace(img, data, <<>>)
                             ELSE Fresh(img, dtype, data, <<>>)
         IN  result([i \in DOMAIN img.data |->
                        astype(np_clip(img.data[i], img.dtype, max_value),
                               mid, dtype)])

\* the decorator: r is what the wrapped function returned for img
clipped(img, r) ==
    IF r.err # "" THEN r
    ELSE IF r.dtype = "uint8" THEN r
    ELSE LET c == clip(Arr(r.dtype, r.shape, r.data), img.dtype, FALSE)
         IN  [c EXCEPT !.mem = r.mem, !.path = r.path]

\* Operands as the caller passes them, and as convert_value returns them
Py(v, pytype) == [kind |-> "scalar", pytype |-> pytype, v |-> v]
NpScalar(dtype, v) == [kind |-> "npscalar", dtype |-> dtype, v |-> v]
NdArray(dtype, shape, data) ==
    [kind |-> "array", dtype |-> dtype, shape |-> shape, data |-> data]
Other == [kind |-> "other"]
Unsupported == [kind |-> "TypeError"]

\* of the numpy scalars only np.float32 and np.float64 pass the isinstance
\* test; value[0] of an empty vector raises IndexError
convert_value(value, num_channels) ==
    IF value.kind = "scalar" THEN Py(value.v, "float")
    ELSE IF value.kind = "npscalar"
    THEN IF value.dtype \in {"float32", "float64"} THEN Py(value.v, "float")
         ELSE Unsupported
    ELSE IF value.kind = "array"
    THEN IF Len(value.shape) = 0
         THEN Py(value.data[1], IF IsFloat(value.dtype) THEN "float" ELSE "int")
         ELSE IF Len(value.shape) > 1 THEN value
         ELSE IF Len(value.data) = 1 \/ num_channels = 1
                 \/ Len(value.data) < num_channels
         THEN IF Len(value.data) = 0 THEN [kind |-> "IndexError"]
              ELSE Py(value.data[1], "float")
         ELSE NdArray(value.dtype, <<num_channels>>,
                      SubSeq(value.data, 1, num_channels))
    ELSE Unsupported

\* ------------------------------------------------------------------------
\* Shapes
\* ------------------------------------------------------------------------
RECURSIVE Size(_)
Size(shape) == IF shape = <<>> THEN 1 ELSE Head(shape) * Size(Tail(shape))

\* np.broadcast_to(value, shape): right-aligned, every dimension equal or 1
Broadcastable(vshape, shape) ==
    /\ Len(vshape) <= Len(shape)
    /\ \A k \in 1..Len(vshape) :
          vshape[k] \in {1, shape[Len(shape) - Len(vshape) + k]}

\* the coordinate along dimension k of the i-th element (from 1)
Coord(i, shape, k) ==
    ((i - 1) \div Size(SubSeq(shape, k + 1, Len(shape)))) % shape[k]

\* the element of value that np.broadcast_to puts at position i of shape
BroadcastAt(i, vshape, shape) ==
    LET off == Len(shape) - Len(vshape)
        term(k) == IF vshape[k] = 1 THEN 0
                   ELSE Coord(i, shape, off + k)
                            * Size(SubSeq(vshape, k + 1, Len(vshape)))
        RECURSIVE Sum(_)
        Sum(k) == IF k = 0 THEN 0 ELSE term(k) + Sum(k - 1)
    IN  1 + Sum(Len(vshape))

\* ------------------------------------------------------------------------
\* OpenCV arithmetic (cv2.add, cv2.multiply), by its contract: element-wise
\* on arrays of one type, or an array and a scalar; the result is converted
\* with saturate_cast, which rounds to nearest (ties to even) and clamps for
\* integer types; 32-bit unsigned and 64-bit arrays are not accepted
\* ------------------------------------------------------------------------
cv2_types == {"uint8", "uint16", "int16", "float32", "float64"}

saturate_cast(v, dtype) ==
    IF IsFloat(dtype) THEN DyRoundBits(v, MantBits(dtype))
    ELSE IF dtype = "int16"
    THEN DyMax(DyInt(-32768), DyMin(DyRint(v), DyInt(32767)))
    ELSE DyMax(DyZero, DyMin(DyRint(v), MAX_VALUES_BY_DTYPE[dtype]))

\* a to the n-th power, n a natural number (anything to the 0th is 1)
RECURSIVE DyPow(_, _)
DyPow(a, n) == IF n = 0 THEN DyInt(1) ELSE DyMul(a, DyPow(a, n - 1))

\* np_operations; exponents are whole numbers
np_op(operation, a, b) ==
    IF operation = "add" THEN DyAdd(a, b)
    ELSE IF operation = "power" THEN DyPow(a, DyToInt(b))
    ELSE DyMul(a, b)

\* src2 is Py(...) or an array of src1's shape; dtype "" leaves the output
\* type to OpenCV
cv2_arith(operation, src1, src2, dtype) ==
    LET out == IF dtype = "" THEN src1.dtype ELSE dtype
        bad == \/ src1.dtype \notin cv2_types
               \/ src2.kind = "array" /\ src2.dtype \notin cv2_types
               \/ src2.kind = "array" /\ src2.dtype # src1.dtype /\ dtype = ""
        b(i) == IF src2.kind = "array" THEN src2.data[i]
                ELSE IF IsFloat(out) THEN DyRoundBits(src2.v, MantBits(out))
                ELSE src2.v
    IN  IF bad THEN [err |-> "cv2.error", dtype |-> out, data |-> <<>>]
        ELSE [err |-> "", dtype |-> out,
              data |-> [i \in DOMAIN src1.data |->
                          saturate_cast(np_op(operation, src1.data[i], b(i)), out)]]

\* ------------------------------------------------------------------------
\* functions.py: lookup tables
\* ------------------------------------------------------------------------
\* one row of max_value + 1 float32 entries per entry of value, flattened
create_lut_array(dtype, value, operation) ==
    LET max_value == MAX_VALUES_BY_DTYPE[dtype]
        vals == IF value.kind = "scalar" THEN <<value.v>> ELSE value.data
        v(j) == DyRoundBits(IF dtype = "uint8" /\ operation = "add"
                            THEN DyTrunc(vals[j]) ELSE vals[j], 24)
        rows(n) ==
            Arr("float32", <<Len(vals), n>>,
                [p \in 1..(Len(vals) * n) |->
                    DyRoundBits(np_op(operation, DyInt((p - 1) % n),
                                      v(((p - 1) \div n) + 1)), 24)])
    IN  rows(DyToInt(max_value) + 1)

\* a translation that reads the table one entry too low
sz_lut_shifted(data, lut, row) ==
    [i \in DOMAIN data |->
        lut.data[row * lut.shape[2]
                 + (IF DyIsZero(data[i]) THEN 0 ELSE DyToInt(data[i]) - 1) + 1]]

\* sz.translate: every byte replaced by the table's entry at that index;
\* row is the table's row (from 0)
sz_lut(data, lut, row) ==
    [i \in DOMAIN data |-> lut.data[row * lut.shape[2] + DyToInt(data[i]) + 1]]

apply_lut(img, value, operation, inplace) ==
    LET dtype == img.dtype
        C     == img.shape[Len(img.shape)]
        \* a single channel's slice is the image's own memory, which sz_lut
        \* translates in place; other slices are copied first
        merged(out) ==
            [Fresh(img, "float32", out, <<"lut">>)
                EXCEPT !.mem = IF inplace /\ C = 1 THEN out ELSE img.data]
        translated(lut) ==
            IF value.kind = "scalar"
            THEN Fresh(img, dtype, sz_lut(img.data, lut, 0), <<"lut">>)
            ELSE IF lut.shape[1] < C THEN Raise(img, "IndexError", <<"lut">>)
            ELSE merged([i \in DOMAIN img.data |->
                            sz_lut(<<img.data[i]>>, lut, Chan(i, C) - 1)[1]])
    IN  translated(clip(create_lut_array(dtype, value, operation), dtype, FALSE))

\* ------------------------------------------------------------------------
\* functions.py: operands for OpenCV
\* ------------------------------------------------------------------------
_prepare_scalar_value(img, value, operation) ==
    LET full(v1, cast_type) ==
            IF ~PyFits(v1.v, v1.pytype, cast_type)
            THEN [kind |-> "OverflowError"]
            ELSE NdArray(cast_type, img.shape,
                         [i \in DOMAIN img.data |->
                             PyStore(v1.v, v1.pytype, cast_type)])
        prepared(v1) ==
            IF get_num_channels(img) > MAX_OPENCV_WORKING_CHANNELS
            THEN full(v1, IF operation = "add" /\ ~v1.v.neg THEN img.dtype
                          ELSE "float32")
            ELSE v1
    IN  prepared(IF operation = "add" /\ img.dtype = "uint8"
                 THEN Py(DyTrunc(value.v), "int") ELSE value)

_prepare_array_value(img, value, operation) ==
    LET d1     == IF value.dtype = "float64" THEN "float32" ELSE value.dtype
        vshape == IF Len(value.shape) = 1 THEN <<1, 1, value.shape[1]>>
                  ELSE value.shape
        \* b is the operand broadcast to the image's shape
        prepared(b) ==
            IF operation = "add" /\ img.dtype = "uint8"
            THEN IF \A i \in DOMAIN b : ~b[i].neg
                 THEN NdArray("uint8", img.shape,
                              clip(Arr(d1, img.shape, b), "uint8", FALSE).data)
                 ELSE NdArray("float32", img.shape,
                              [i \in DOMAIN b |->
                                  astype(DyTrunc(b[i]), d1, "float32")])
            ELSE NdArray(d1, img.shape, b)
    IN  IF ~Broadcastable(vshape, img.shape) THEN [kind |-> "ValueError"]
        ELSE prepared([i \in DOMAIN img.data |->
                          astype(value.data[BroadcastAt(i, vshape, img.shape)],
                                 value.dtype, d1)])

prepare_value_opencv(img, value, operation) ==
    IF value.kind = "scalar" THEN _prepare_scalar_value(img, value, operation)
    ELSE _prepare_array_value(img, value, operation)

\* ------------------------------------------------------------------------
\* functions.py: add
\* ------------------------------------------------------------------------
AsFloat32(a) ==
    [a EXCEPT !.dtype = "float32",
              !.data = [i \in DOMAIN a.data |-> astype(a.data[i], a.dtype, "float32")]]

add_opencv(img, value, inplace) ==
    LET \* r is what cv2.add returned
        added(r, needs_float) ==
            IF r.err # "" THEN Raise(img, r.err, <<"opencv">>)
            ELSE IF inplace /\ ~needs_float THEN InPlace(img, r.data, <<"opencv">>)
            ELSE Fresh(img, r.dtype, r.data, <<"opencv">>)
        cv2_add(pv, needs_float) ==
            added(IF needs_float
                  THEN cv2_arith("add", AsFloat32(img),
                                 IF pv.kind = "scalar" THEN pv ELSE AsFloat32(pv),
                                 "")
                  ELSE cv2_arith("add", img, pv, ""),
                  needs_float)
        \* pv is the operand as prepare_value_opencv returned it
        prepared(pv) ==
            IF pv.kind \notin {"scalar", "array"} THEN Raise(img, pv.kind, <<>>)
            ELSE cv2_add(pv, /\ img.dtype = "uint8"
                             /\ \/ pv.kind = "scalar" /\ pv.v.neg
                                \/ pv.kind = "array" /\ pv.dtype # "uint8")
    IN  prepared(prepare_value_opencv(img, value, "add"))

add_lut(img, value, inplace) == apply_lut(img, value, "add", inplace)

\* a scalar add that takes the table for 8-bit images
add_constant_lut(img, value, inplace) ==
    clipped(img, IF img.dtype = "uint8" THEN add_lut(img, value, inplace)
                 ELSE add_opencv(img, value, inplace))

add_constant(img, value, inplace) == clipped(img, add_opencv(img, value, inplace))

add_vector(img, value, inplace) ==
    clipped(img, IF img.dtype = "uint8" THEN add_lut(img, value, inplace)
                 ELSE add_opencv(img, value, inplace))

add_array(img, value, inplace) == clipped(img, add_opencv(img, value, inplace))

\* add without the early return for a zero scalar
add_no_shortcut(img, value0, inplace) ==
    LET value == convert_value(value0, get_num_channels(img))
    IN  IF value.kind = "TypeError" THEN Raise(img, "TypeError", <<>>)
        ELSE IF value.kind = "scalar"
        THEN add_constant(img, IF img.dtype = "uint8"
                               THEN Py(DyTrunc(value.v), "int") ELSE value,
                          inplace)
        ELSE IF Len(value.shape) = 1 THEN add_vector(img, value, inplace)
        ELSE add_array(img, value, inplace)

add(img, value0, inplace) ==
    LET value == convert_value(value0, get_num_channels(img))
    IN  IF value.kind = "TypeError" THEN Raise(img, "TypeError", <<>>)
        ELSE IF value.kind = "scalar"
        THEN IF DyIsZero(value.v) THEN InPlace(img, img.data, <<>>)
             ELSE add_constant(img, IF img.dtype = "uint8"
                                    THEN Py(DyTrunc(value.v), "int") ELSE value,
                               inplace)
        ELSE IF Len(value.shape) = 1 THEN add_vector(img, value, inplace)
        ELSE add_array(img, value, inplace)

\* ------------------------------------------------------------------------
\* functions.py: multiply
\* ------------------------------------------------------------------------
\* numpy's result type for float32 array (op) value
NumpyResultType(value) ==
    IF value.kind = "array" /\ value.dtype \in {"float64", "uint32"}
    THEN "float64" ELSE "float32"

apply_numpy(img, value, operation) ==
    LET out == NumpyResultType(value)
        v(i) == IF value.kind = "scalar"
                THEN DyRoundBits(IF operation = "add" /\ img.dtype = "uint8"
                                 THEN DyTrunc(value.v) ELSE value.v, 24)
                ELSE value.data[BroadcastAt(i, value.shape, img.shape)]
    IN  IF value.kind = "array" /\ ~Broadcastable(value.shape, img.shape)
        THEN Raise(img, "ValueError", <<"numpy">>)
        ELSE Fresh(img, out,
                   [i \in DOMAIN img.data |->
                       DyRoundBits(np_op(operation,
                                         astype(img.data[i], img.dtype, "float32"),
                                         v(i)),
                                   MantBits(out))],
                   <<"numpy">>)

multiply_lut(img, value, inplace) == apply_lut(img, value, "multiply", inplace)

multiply_opencv(img, value) ==
    LET \* r is what cv2.multiply returned
        multiplied(r) ==
            IF r.err # "" THEN Raise(img, r.err, <<"opencv">>)
            ELSE Fresh(img, r.dtype, r.data, <<"opencv">>)
        \* pv is the operand as prepare_value_opencv returned it
        prepared(pv) ==
            IF pv.kind \notin {"scalar", "array"} THEN Raise(img, pv.kind, <<>>)
            ELSE multiplied(IF img.dtype = "uint8"
                            THEN cv2_arith("multiply", AsFloat32(img), pv, "")
                            ELSE cv2_arith("multiply", img, pv, ""))
    IN  prepared(prepare_value_opencv(img, value, "multiply"))

multiply_numpy(img, value) == apply_numpy(img, value, "multiply")

multiply_by_constant(img, value, inplace) ==
    clipped(img, IF img.dtype = "uint8" THEN multiply_lut(img, value, inplace)
                 ELSE IF img.dtype = "float32" THEN multiply_numpy(img, value)
                 ELSE multiply_opencv(img, value))

\* a vector multiply that keeps float32 images in numpy
multiply_by_vector_float32(img, value, num_channels, inplace) ==
    clipped(img, IF img.dtype = "uint8" THEN multiply_lut(img, value, inplace)
                 ELSE IF num_channels > MAX_OPENCV_WORKING_CHANNELS
                         \/ img.dtype = "float32"
                 THEN multiply_numpy(img, value)
                 ELSE multiply_opencv(img, value))

multiply_by_vector(img, value, num_channels, inplace) ==
    clipped(img, IF img.dtype = "uint8" THEN multiply_lut(img, value, inplace)
                 ELSE IF num_channels > MAX_OPENCV_WORKING_CHANNELS
                 THEN multiply_numpy(img, value)
                 ELSE multiply_opencv(img, value))

\* an array multiply that takes the table for 8-bit images
multiply_by_array_lut(img, value) ==
    clipped(img, IF img.dtype = "uint8" THEN multiply_lut(img, value, FALSE)
                 ELSE multiply_opencv(img, value))

multiply_by_array(img, value) == clipped(img, multiply_opencv(img, value))

multiply(img, value0, inplace) ==
    LET num_channels == get_num_channels(img)
        value == convert_value(value0, num_channels)
    IN  IF value.kind = "TypeError" THEN Raise(img, "TypeError", <<>>)
        ELSE IF value.kind = "scalar" THEN multiply_by_constant(img, value, inplace)
        ELSE IF Len(value.shape) = 1
        THEN multiply_by_vector(img, value, num_channels, inplace)
        ELSE multiply_by_array(img, value)

\* ------------------------------------------------------------------------
\* functions.py: multiply_add
\* ------------------------------------------------------------------------
\* numpy's result type for an array of type a combined with a value
Promote(a, value) ==
    IF value.kind = "scalar" THEN (IF IsFloat(a) THEN a ELSE "float64")
    ELSE IF a = "float64" \/ value.dtype = "float64" THEN "float64"
    ELSE IF IsFloat(a) /\ (IsFloat(value.dtype) \/ value.dtype = "uint8") THEN a
    ELSE IF IsFloat(value.dtype) /\ a = "uint8" THEN value.dtype
    ELSE "float64"

\* the table(s) clip(np.arange(0, max_value + 1, dtype=np.float32) * factor
\* + value, dtype): one row per entry of a vector operand
multiply_add_table(dtype, factor, value) ==
    LET rf   == IF factor.kind = "scalar" THEN 1 ELSE Len(factor.data)
        rv   == IF value.kind = "scalar" THEN 1 ELSE Len(value.data)
        rows == IF rf > rv THEN rf ELSE rv
        pt   == Promote("float32", factor)
        st   == Promote(pt, value)
        f(j) == IF factor.kind = "scalar" THEN DyRoundBits(factor.v, 24)
                ELSE factor.data[IF rf = 1 THEN 1 ELSE j]
        v(j) == IF value.kind = "scalar" THEN DyRoundBits(value.v, MantBits(st))
                ELSE value.data[IF rv = 1 THEN 1 ELSE j]
        table(n) ==
            clip(Arr(st, <<rows, n>>,
                     [p \in 1..(rows * n) |->
                        LET j == ((p - 1) \div n) + 1
                        IN  DyRoundBits(
                              DyAdd(DyRoundBits(DyMul(DyInt((p - 1) % n), f(j)),
                                                MantBits(pt)),
                                    v(j)),
                              MantBits(st))]),
                 dtype, FALSE)
    IN  table(DyToInt(MAX_VALUES_BY_DTYPE[dtype]) + 1)

multiply_add_lut(img, factor, value, inplace) ==
    LET dtype == img.dtype
        num_channels == get_num_channels(img)
        rf   == IF factor.kind = "scalar" THEN 1 ELSE Len(factor.data)
        rv   == IF value.kind = "scalar" THEN 1 ELSE Len(value.data)
        merged(out) ==
            [Fresh(img, "float32", out, <<"lut">>)
                EXCEPT !.mem = IF inplace /\ num_channels = 1 THEN out
                               ELSE img.data]
        single(out) == IF inplace THEN InPlace(img, out, <<"lut">>)
                       ELSE Fresh(img, dtype, out, <<"lut">>)
        translated(luts) ==
            IF factor.kind = "scalar" /\ value.kind = "scalar"
            THEN single(sz_lut(img.data, luts, 0))
            ELSE IF rf # rv /\ rf # 1 /\ rv # 1
            THEN Raise(img, "ValueError", <<"lut">>)
            ELSE IF luts.shape[1] < num_channels
            THEN Raise(img, "IndexError", <<"lut">>)
            ELSE merged([i \in DOMAIN img.data |->
                            sz_lut(<<img.data[i]>>, luts,
                                   Chan(i, num_channels) - 1)[1]])
    IN  translated(multiply_add_table(dtype, factor, value))

\* bool(x != 0) and bool(x == 0) of an operand raise ValueError for an array
\* of more than one element
Ambiguous(x) == x.kind = "array" /\ Len(x.data) # 1
IsZero(x) == DyIsZero(IF x.kind = "scalar" THEN x.v ELSE x.data[1])

\* np.ones_like(result) * x, for an operand whose truth value is defined
OnesTimes(result, x) ==
    LET t == Promote(result.dtype, x)
        e == IF x.kind = "scalar" THEN x.v ELSE x.data[1]
    IN  NdArray(t, result.shape,
                [i \in DOMAIN result.data |-> DyRoundBits(e, MantBits(t))])

\* an allocation that keeps whatever the memory held, here the image's values
np_empty_like(a, dtype) == Arr(dtype, a.shape, a.data)

np_zeros_like(a, dtype) == Arr(dtype, a.shape, [i \in DOMAIN a.data |-> DyZero])

multiply_add_opencv(img, factor, value) ==
    LET \* r is what cv2.add returned
        added(r) ==
            IF r.err # "" THEN Raise(img, r.err, <<"opencv">>)
            ELSE Fresh(img, r.dtype, r.data, <<"opencv">>)
        \* result is the image times the factor
        add_value(result) ==
            IF Ambiguous(value) THEN Raise(img, "ValueError", <<"opencv">>)
            ELSE IF IsZero(value)
            THEN Fresh(img, result.dtype, result.data, <<"opencv">>)
            ELSE added(cv2_arith("add", result, OnesTimes(result, value),
                                 "float32"))
        \* m is what cv2.multiply returned
        multiplied(m) ==
            IF m.err # "" THEN Raise(img, m.err, <<"opencv">>)
            ELSE add_value(Arr(m.dtype, img.shape, m.data))
        scale(result0) ==
            IF Ambiguous(factor) THEN Raise(img, "ValueError", <<"opencv">>)
            ELSE IF ~IsZero(factor)
            THEN multiplied(cv2_arith("multiply", result0,
                                      OnesTimes(result0, factor), "float32"))
            ELSE add_value(np_zeros_like(result0, img.dtype))
    IN  IF value.kind = "scalar" /\ IsZero(value)
           /\ factor.kind = "scalar" /\ IsZero(factor)
        THEN Fresh(img, img.dtype, np_zeros_like(img, img.dtype).data, <<"opencv">>)
        ELSE scale(AsFloat32(img))

multiply_add(img, factor0, value0, inplace) ==
    LET num_channels == get_num_channels(img)
        factor == convert_value(factor0, num_channels)
        value  == convert_value(value0, num_channels)
    IN  IF factor.kind = "TypeError" \/ value.kind = "TypeError"
        THEN Raise(img, "TypeError", <<>>)
        ELSE clipped(img, IF img.dtype = "uint8"
                          THEN multiply_add_lut(img, factor, value, inplace)
                          ELSE multiply_add_opencv(img, factor, value))

\* ------------------------------------------------------------------------
\* functions.py: add_weighted
\* ------------------------------------------------------------------------
\* simsimd's wsum by its contract: alpha * a + beta * b element-wise in the
\* arrays' type, rounded and saturated for integer types
wsum(a, b, alpha, beta) ==
    [i \in DOMAIN a.data |->
        saturate_cast(DyAdd(DyMul(alpha, a.data[i]), DyMul(beta, b.data[i])),
                      a.dtype)]

\* the second operand as add_weighted_simsimd hands it to wsum
second_operand(img1, img2) ==
    LET original_dtype == img1.dtype
        cast == Arr(original_dtype, img2.shape,
                    [i \in DOMAIN img2.data |->
                        astype(img2.data[i], img2.dtype, original_dtype)])
    IN  IF img2.dtype # original_dtype
        THEN Arr(original_dtype, img2.shape, clip(cast, original_dtype, TRUE).data)
        ELSE img2

add_weighted_simsimd(img1, weight1, img2, weight2) ==
    Fresh(img1, img1.dtype, wsum(img1, second_operand(img1, img2), weight1, weight2),
          IF img2.dtype # img1.dtype THEN <<"astype", "clip", "simsimd">>
          ELSE <<"simsimd">>)

\* add_weighted with the shapes compared only once the second operand has
\* been converted
add_weighted_late_check(img1, weight1, img2, weight2) ==
    IF img1.shape # img2.shape
    THEN Raise(img1, "ValueError",
               IF img2.dtype # img1.dtype THEN <<"astype", "clip">> ELSE <<"astype">>)
    ELSE clipped(img1, add_weighted_simsimd(img1, weight1, img2, weight2))

add_weighted(img1, weight1, img2, weight2) ==
    IF img1.shape # img2.shape THEN Raise(img1, "ValueError", <<>>)
    ELSE clipped(img1, add_weighted_simsimd(img1, weight1, img2, weight2))

\* ------------------------------------------------------------------------
\* functions.py: to_float, from_float
\* ------------------------------------------------------------------------
\* the optional max_value argument
None == [given |-> FALSE]
Given(v) == [given |-> TRUE, v |-> v]

get_max_value(dtype) == MAX_VALUES_BY_DTYPE[dtype]

to_float_numpy(img, max_value) ==
    LET m == IF max_value.given THEN max_value.v ELSE get_max_value(img.dtype)
    IN  IF ~max_value.given /\ img.dtype \notin DOMAIN MAX_VALUES_BY_DTYPE
        THEN Raise(img, "RuntimeError", <<"numpy">>)
        ELSE Fresh(img, "float32",
                   [i \in DOMAIN img.data |->
                       DyRoundBits(DyDivRound(img.data[i], m, 53), 24)],
                   <<"numpy">>)

to_float_lut(img, max_value) ==
    LET m   == IF max_value.given THEN max_value.v ELSE MAX_VALUES_BY_DTYPE[img.dtype]
        lut == Arr("float32", <<1, 256>>,
                   [p \in 1..256 |-> DyDivRound(DyInt(p - 1), DyRoundBits(m, 24), 24)])
    IN  IF img.dtype # "uint8" THEN Raise(img, "ValueError", <<"lut">>)
        ELSE Fresh(img, "float32", sz_lut(img.data, lut, 0), <<"lut">>)

to_float(img, max_value) ==
    IF img.dtype = "float64" THEN Fresh(img, "float32", AsFloat32(img).data, <<>>)
    ELSE IF img.dtype = "float32" THEN InPlace(img, img.data, <<>>)
    ELSE IF img.dtype = "uint8" THEN to_float_lut(img, max_value)
    ELSE to_float_numpy(img, max_value)

\* np.rint(img * max_value) in the array's precision, then clip; an integer
\* array times the table's integer maximum stays in the array's type and
\* wraps
from_float_numpy(img, target_dtype, max_value) ==
    LET m == IF max_value.given THEN max_value.v ELSE get_max_value(target_dtype)
        t == IF IsFloat(img.dtype) THEN img.dtype ELSE "float64"
        scaled == Arr(t, img.shape,
                      [i \in DOMAIN img.data |->
                          IF ~IsFloat(img.dtype) /\ ~max_value.given
                             /\ ~IsFloat(target_dtype)
                          THEN DyWrap(DyMul(img.data[i], m), IntBits(img.dtype))
                          ELSE DyRint(DyRoundBits(DyMul(img.data[i],
                                                        DyRoundBits(m, MantBits(t))),
                                                  MantBits(t)))])
        clipped_to(c) == IF c.err # "" THEN Raise(img, c.err, <<"numpy">>)
                         ELSE Fresh(img, c.dtype, c.data, <<"numpy">>)
    IN  IF ~max_value.given /\ target_dtype \notin DOMAIN MAX_VALUES_BY_DTYPE
        THEN Raise(img, "RuntimeError", <<"numpy">>)
        ELSE clipped_to(clip(scaled, target_dtype, TRUE))

\* both branches multiply in float32 by max_value taken as a float32
from_float_opencv(img, target_dtype, max_value) ==
    LET m == IF max_value.given THEN max_value.v ELSE get_max_value(target_dtype)
        img_float == AsFloat32(img)
        scaled == Arr("float32", img.shape,
                      [i \in DOMAIN img.data |->
                          DyRint(DyRoundBits(DyMul(img_float.data[i], DyRoundBits(m, 24)),
                                             24))])
        clipped_to(c) == IF c.err # "" THEN Raise(img, c.err, <<"opencv">>)
                         ELSE Fresh(img, c.dtype, c.data, <<"opencv">>)
    IN  IF ~max_value.given /\ target_dtype \notin DOMAIN MAX_VALUES_BY_DTYPE
        THEN Raise(img, "RuntimeError", <<"opencv">>)
        ELSE clipped_to(clip(scaled, target_dtype, FALSE))

from_float(img, target_dtype, max_value) ==
    IF target_dtype = "float32" THEN InPlace(img, img.data, <<>>)
    ELSE IF target_dtype = "float64"
    THEN IF img.dtype = "float32" THEN InPlace(img, img.data, <<>>)
         ELSE Fresh(img, "float32", AsFloat32(img).data, <<>>)
    ELSE IF img.dtype = "float32" THEN from_float_opencv(img, target_dtype, max_value)
    ELSE from_float_numpy(img, target_dtype, max_value)

\* ------------------------------------------------------------------------
\* functions.py: float32_io, uint8_io
\* ------------------------------------------------------------------------
\* the function the decorators wrap: it returns a new image of the type and
\* shape of the one it was given (here its elements in reverse order)
Wrapped(img) ==
    Arr(img.dtype, img.shape,
        [i \in DOMAIN img.data |-> img.data[Len(img.data) + 1 - i]])

float32_io(img) ==
    LET left(r) == IF r.err # "" THEN Raise(img, r.err, r.path)
                   ELSE Fresh(img, r.dtype, r.data, r.path)
        entered(r) ==
            IF r.err # "" THEN r
            ELSE IF img.dtype # "float32"
            THEN left(from_float(Wrapped(Arr(r.dtype, r.shape, r.data)),
                                 img.dtype, None))
            ELSE Fresh(img, r.dtype, Wrapped(Arr(r.dtype, r.shape, r.data)).data,
                       <<>>)
    IN  entered(IF img.dtype # "float32" THEN to_float(img, None)
                ELSE InPlace(img, img.data, <<>>))

uint8_io(img) ==
    LET left(r) == IF r.err # "" THEN Raise(img, r.err, r.path)
                   ELSE Fresh(img, r.dtype, r.data, r.path)
        entered(r) ==
            IF r.err # "" THEN r
            ELSE IF img.dtype # "uint8"
            THEN left(to_float(Wrapped(Arr(r.dtype, r.shape, r.data)), None))
            ELSE Fresh(img, r.dtype, Wrapped(Arr(r.dtype, r.shape, r.data)).data,
                       <<>>)
    IN  entered(IF img.dtype # "uint8" THEN from_float(img, "uint8", None)
                ELSE InPlace(img, img.data, <<>>))

\* ------------------------------------------------------------------------
\* functions.py: normalize_per_image
\* ------------------------------------------------------------------------
\* eps = 1e-4, a Python float
eps == DyDivRound(DyInt(1), DyInt(10000), 53)

\* ndarray.mean, ndarray.std (and cv2.meanStdDev, which accumulates in
\* double) of the elements xs of a dtype array.  numpy accumulates float32
\* data in float32 and every other type here in float64; each element-wise
\* step rounds to that type, a sum is taken exactly and rounded once
np_mean(xs, dtype) ==
    DyDivRound(DySum(xs, 1, Len(xs)), DyInt(Len(xs)),
               IF dtype = "float32" THEN 24 ELSE 53)

\* the variance of xs about mean, every step rounded to p bits
np_var(xs, mean, p) ==
    DyDivRound(DySum([i \in DOMAIN xs |->
                         DyRoundBits(DyMul(DyRoundBits(DySub(xs[i], mean), p),
                                           DyRoundBits(DySub(xs[i], mean), p)), p)],
                     1, Len(xs)),
               DyInt(Len(xs)), p)

np_std(xs, dtype) ==
    DySqrt(np_var(xs, np_mean(xs, dtype), IF dtype = "float32" THEN 24 ELSE 53),
           IF dtype = "float32" THEN 24 ELSE 53)

np_min(xs) ==
    CHOOSE v \in {xs[i] : i \in DOMAIN xs} : \A i \in DOMAIN xs : DyLe(v, xs[i])

np_max(xs) ==
    CHOOSE v \in {xs[i] : i \in DOMAIN xs} : \A i \in DOMAIN xs : DyLe(xs[i], v)

\* img[..., c] flattened: the elements of channel c (from 1)
ChannelOf(img, c) ==
    LET C == get_num_channels(img)
    IN  [p \in 1..(Len(img.data) \div C) |-> img.data[(p - 1) * C + c]]

\* no clamp at all
np_clip_none(x, lo, hi) == x

\* np.clip(x, lo, hi) for one element
np_clip_range(x, lo, hi) == DyMin(DyMax(x, lo), hi)

NormalizationTypes == {"image", "image_per_channel", "min_max", "min_max_per_channel"}

\* the statistic S of every channel (a sequence over the channels) or of
\* the whole array (a sequence of one)
compute_stats(img, per_channel, S(_)) ==
    IF per_channel
    THEN [c \in 1..get_num_channels(img) |-> S(ChannelOf(img, c))]
    ELSE <<S(img.data)>>

\* [i |-> F(img.data[i], a's and b's entry for the channel of i)]: an
\* element-wise expression with the per-channel (or single) values a and b,
\* which are computed first; the expression is worked out once for each
\* (element, channel) that occurs
Elementwise(img, a, b, F(_, _, _)) ==
    LET key(i) == <<img.data[i], Chan(i, get_num_channels(img))>>
        fill(table) == IF DOMAIN table = {} THEN <<>>
                       ELSE [i \in DOMAIN img.data |-> table[key(i)]]
    IN  IF a = <<>> \/ b = <<>> THEN <<>>
        ELSE fill([k \in {key(i) : i \in DOMAIN img.data} |->
                      F(k[1], a[IF Len(a) = 1 THEN 1 ELSE k[2]],
                        b[IF Len(b) = 1 THEN 1 ELSE k[2]])])

\* img is taken as float32.  "image" and "image_per_channel" centre on the
\* mean and scale by std + eps, clipped to [-20, 20]; "min_max" and
\* "min_max_per_channel" centre on the minimum and scale by max - min + eps,
\* clipped to [0, 1]; the arithmetic of the four branches is the same.  A
\* float32 scalar plus eps is a float64 before NEP 50 and a float32 after; an
\* array plus eps is a float32 array
normalize_per_image_numpy(img, normalization) ==
    LET per_channel == normalization \in {"image_per_channel", "min_max_per_channel"}
        mean_std == normalization \in {"image", "image_per_channel"}
        q == IF per_channel \/ build.nep50 THEN 24 ELSE 53
    IN  IF normalization \notin NormalizationTypes
        THEN Raise(img, "ValueError", <<"numpy">>)
        ELSE Fresh(img, "float32",
                   Elementwise(AsFloat32(img),
                       compute_stats(AsFloat32(img), per_channel, LAMBDA xs :
                           IF mean_std THEN np_mean(xs, "float32") ELSE np_min(xs)),
                       compute_stats(AsFloat32(img), per_channel, LAMBDA xs :
                           DyRoundBits(
                               DyRoundBits(
                                   DyAdd(IF mean_std THEN np_std(xs, "float32")
                                         ELSE DyRoundBits(
                                                  DySub(np_max(xs), np_min(xs)), 24),
                                         DyRoundBits(eps, q)), q), 24)),
                       LAMBDA x, centre, scale :
                           np_clip_range(
                               DyDivRound(DyRoundBits(DySub(x, centre), 24), scale, 24),
                               IF mean_std THEN DyInt(-20) ELSE DyZero,
                               IF mean_std THEN DyInt(20) ELSE DyInt(1))),
                   <<"numpy">>)

\* cv2.normalize(img, None, 0, 1, cv2.NORM_MINMAX, dtype=cv2.CV_32F), by its
\* contract: the smallest element goes to 0 and the largest to 1, linearly;
\* a constant image goes to 0
cv2_normalize(img) ==
    Elementwise(img, <<np_min(img.data)>>, <<np_max(img.data)>>,
                LAMBDA x, lo, hi :
                    IF lo = hi THEN DyZero
                    ELSE DyDivRound(DySub(x, lo), DySub(hi, lo), 24))

\* the wrapper keeps the trailing channel dimension that OpenCV drops, so
\* the result has the shape of img.
\* _compute_image_stats_opencv, _compute_per_channel_stats_opencv: the
\* statistics come from cv2.meanStdDev (by_cv2, in double) where the source
\* calls it and from numpy elsewhere; eps is added to a Python float or to a
\* numpy array.
\* _normalize_mean_std_opencv: numpy for rank > 3 (float64 when the
\* statistics are a float64 array: wide); OpenCV otherwise, which takes a
\* scalar subtrahend as a float32 and a scalar divisor as a double.
\* _normalize_min_max_per_channel_opencv: numpy for rank > 3, OpenCV otherwise
normalize_per_image_opencv(img, normalization0) ==
    LET C == get_num_channels(img)
        ndim == Len(img.shape)
        normalization ==
            IF C = 1 /\ normalization0 = "image_per_channel" THEN "image"
            ELSE IF C = 1 /\ normalization0 = "min_max_per_channel" THEN "min_max"
            ELSE normalization0
        per_channel == normalization \in {"image_per_channel", "min_max_per_channel"}
        \* the precision numpy computes in with arrays of img's type
        p == IF img.dtype = "float32" THEN 24 ELSE 53
        by_cv2 == (ndim > 3) # per_channel
        stat_type == IF by_cv2 THEN "float64" ELSE img.dtype
        q == IF per_channel /\ ndim > 3 THEN p ELSE 53
        wide == ndim > 3 /\ per_channel /\ img.dtype # "float32"
        w == IF wide THEN 53 ELSE 24
    IN  IF normalization \in {"image", "image_per_channel"}
        THEN IF by_cv2 /\ img.dtype \notin cv2_types
             THEN Raise(img, "cv2.error", <<"opencv">>)
             ELSE Fresh(img, IF wide THEN "float64" ELSE "float32",
                        Elementwise(img,
                            compute_stats(img, per_channel, LAMBDA xs :
                                np_mean(xs, stat_type)),
                            compute_stats(img, per_channel, LAMBDA xs :
                                DyRoundBits(DyAdd(np_std(xs, stat_type),
                                                  DyRoundBits(eps, q)), q)),
                            LAMBDA x, mean, std :
                                np_clip_range(
                                    DyDivRound(
                                        DyRoundBits(
                                            DySub(DyRoundBits(x, 24),
                                                  IF wide THEN mean
                                                  ELSE DyRoundBits(mean, 24)), w),
                                        IF ~wide /\ (ndim > 3
                                                     \/ C > MAX_OPENCV_WORKING_CHANNELS)
                                        THEN DyRoundBits(std, 24) ELSE std, w),
                                    DyInt(-20), DyInt(20))),
                        <<"opencv">>)
        ELSE IF normalization = "min_max"
        THEN IF img.dtype \notin cv2_types THEN Raise(img, "cv2.error", <<"opencv">>)
             ELSE Fresh(img, "float32", cv2_normalize(img), <<"opencv">>)
        ELSE IF normalization = "min_max_per_channel"
        THEN IF ndim <= 3 /\ img.dtype \notin cv2_types
             THEN Raise(img, "cv2.error", <<"opencv">>)
             ELSE Fresh(img, IF ndim > 3 /\ p = 53 THEN "float64" ELSE "float32",
                        Elementwise(img,
                            compute_stats(img, per_channel, np_min),
                            compute_stats(img, per_channel, np_max),
                            LAMBDA x, img_min, img_max :
                                np_clip_range(
                                    DyDivRound(
                                        DyRoundBits(DySub(x, img_min), p),
                                        DyRoundBits(
                                            DyAdd(DyRoundBits(DySub(img_max, img_min), p),
                                                  DyRoundBits(eps, p)), p),
                                        IF ndim > 3 THEN p ELSE 24),
                                    DyInt(-20), DyInt(20))),
                        <<"opencv">>)
        ELSE Raise(img, "ValueError", <<"opencv">>)

\* cv2.LUT(img, lut) puts lut[x] where img has x: the table entry is
\* computed for the elements that occur.  The table is np.arange(256,
\* dtype=float32) combined with numpy float64 scalars (a float32 result
\* before NEP 50: narrow; a float64 one after) or with float64 arrays, and
\* is stored as float32.  "image" and "image_per_channel" centre on the mean
\* and scale by std + eps, clipped to [-20, 20]; "min_max" and
\* "min_max_per_channel" centre on the minimum and scale by max - min + eps,
\* clipped to [0, 1]; single-channel images take the global branches
normalize_per_image_lut(img, normalization) ==
    LET single ==
            \/ normalization \in {"image", "min_max"}
            \/ get_num_channels(img) = 1
        mean_std == normalization \in {"image", "image_per_channel"}
        narrow == single /\ ~build.nep50
        w == IF narrow THEN 24 ELSE 53
    IN  IF img.dtype \notin DOMAIN MAX_VALUES_BY_DTYPE
        THEN Raise(img, "KeyError", <<"lut">>)
        ELSE IF normalization \notin NormalizationTypes
        THEN Raise(img, "ValueError", <<"lut">>)
        ELSE Fresh(img, "float32",
                   Elementwise(img,
                       compute_stats(img, ~single, LAMBDA xs :
                           IF mean_std THEN np_mean(xs, "float64") ELSE np_min(xs)),
                       compute_stats(img, ~single, LAMBDA xs :
                           DyRoundBits(
                               DyAdd(IF mean_std THEN np_std(xs, "float64")
                                     ELSE DySub(np_max(xs), np_min(xs)), eps), 53)),
                       LAMBDA x, centre, scale :
                           DyRoundBits(
                               np_clip_range(
                                   DyDivRound(
                                       DyRoundBits(DySub(x, DyRoundBits(centre, w)), w),
                                       DyRoundBits(scale, w), w),
                                   IF mean_std THEN DyInt(-20) ELSE DyZero,
                                   IF mean_std THEN DyInt(20) ELSE DyInt(1)), 24)),
                   <<"lut">>)

\* a dispatcher that sends every 8-bit image to the table
normalize_per_image_lut_first(img, normalization) ==
    IF img.dtype = "uint8" THEN normalize_per_image_lut(img, normalization)
    ELSE IF img.dtype = "float32"
    THEN IF normalization = "image"
         THEN normalize_per_image_numpy(img, normalization)
         ELSE normalize_per_image_opencv(img, normalization)
    ELSE IF Len(img.shape) > 3
    THEN normalize_per_image_numpy(img, normalization)
    ELSE normalize_per_image_opencv(img, normalization)

normalize_per_image(img, normalization) ==
    IF img.dtype = "uint8"
    THEN IF normalization = "min_max"
         THEN normalize_per_image_opencv(img, normalization)
         ELSE normalize_per_image_lut(img, normalization)
    ELSE IF img.dtype = "float32"
    THEN IF normalization = "image"
         THEN normalize_per_image_numpy(img, normalization)
         ELSE normalize_per_image_opencv(img, normalization)
    ELSE IF Len(img.shape) > 3
    THEN normalize_per_image_numpy(img, normalization)
    ELSE normalize_per_image_opencv(img, normalization)

\* ------------------------------------------------------------------------
\* functions.py: normalize.  mean and denominator are what convert_value
\* returned: a Python float or a vector with one entry per channel
\* ------------------------------------------------------------------------
\* everything is taken to float32 first, and a copy of the image is updated
normalize_numpy(img, mean, denominator) ==
    Fresh(img, "float32",
          Elementwise(img,
                      IF mean.kind = "scalar" THEN <<mean.v>> ELSE mean.data,
                      IF denominator.kind = "scalar" THEN <<denominator.v>>
                      ELSE denominator.data,
                      LAMBDA x, m, d :
                          DyRoundBits(
                              DyMul(DyRoundBits(DySub(astype(x, img.dtype, "float32"),
                                                      DyRoundBits(m, 24)), 24),
                                    DyRoundBits(d, 24)), 24)),
          <<"numpy">>)

\* mean_img is float32; denominator_img is float32 for a Python float and
\* keeps a vector's own precision
normalize_opencv(img, mean, denominator) ==
    Fresh(img, "float32",
          Elementwise(img,
                      IF mean.kind = "scalar" THEN <<mean.v>> ELSE mean.data,
                      IF denominator.kind = "scalar"
                      THEN <<DyRoundBits(denominator.v, 24)>>
                      ELSE denominator.data,
                      LAMBDA x, m, d :
                          saturate_cast(
                              DyMul(saturate_cast(
                                        DySub(astype(x, img.dtype, "float32"),
                                              DyRoundBits(m, 24)), "float32"),
                                    d), "float32")),
          <<"opencv">>)

\* the table is worked out in float32, or in a vector's precision once a
\* vector takes part, and stored as float32
normalize_lut(img, mean, denominator) ==
    LET p1 == IF mean.kind = "scalar" THEN 24 ELSE MantBits(mean.dtype)
        pd == IF denominator.kind = "scalar" THEN 24
              ELSE MantBits(denominator.dtype)
        p2 == IF p1 > pd THEN p1 ELSE pd
    IN  Fresh(img, "float32",
              Elementwise(img,
                          IF mean.kind = "scalar" THEN <<mean.v>> ELSE mean.data,
                          IF denominator.kind = "scalar" THEN <<denominator.v>>
                          ELSE denominator.data,
                          LAMBDA x, m, d :
                              DyRoundBits(
                                  DyRoundBits(
                                      DyMul(DyRoundBits(DySub(x, DyRoundBits(m, p1)), p1),
                                            DyRoundBits(d, p2)), p2), 24)),
              <<"lut">>)

normalize(img, mean0, denominator0) ==
    LET converted(mean, denominator) ==
            IF denominator.kind = "TypeError" \/ mean.kind = "TypeError"
            THEN Raise(img, "TypeError", <<>>)
            ELSE IF img.dtype = "uint8" THEN normalize_lut(img, mean, denominator)
            ELSE IF img.dtype = "float32"
            THEN normalize_numpy(img, mean, denominator)
            ELSE normalize_opencv(img, mean, denominator)
    IN  converted(convert_value(mean0, get_num_channels(img)),
                  convert_value(denominator0, get_num_channels(img)))

\* ------------------------------------------------------------------------
\* functions.py: power
\* ------------------------------------------------------------------------
\* a cv2.pow wrapper that takes every element type
power_opencv_any(img, value) ==
    Fresh(img, "float32",
          [i \in DOMAIN img.data |->
              saturate_cast(np_op("power", astype(img.data[i], img.dtype, "float32"),
                                  value.v), "float32")],
          <<"opencv">>)

\* cv2.pow of a float32 image, or of an 8-bit image as it is when the
\* exponent is integral and converted to float32 when not; no other type
power_opencv(img, value) ==
    IF img.dtype = "float32"
    THEN Fresh(img, "float32",
               [i \in DOMAIN img.data |->
                   saturate_cast(np_op("power", img.data[i], value.v), "float32")],
               <<"opencv">>)
    ELSE IF img.dtype = "uint8" /\ DyIsInt(value.v)
    THEN Fresh(img, "uint8",
               [i \in DOMAIN img.data |->
                   saturate_cast(np_op("power", img.data[i], value.v), "uint8")],
               <<"opencv">>)
    ELSE IF img.dtype = "uint8"
    THEN Fresh(img, "float32",
               [i \in DOMAIN img.data |->
                   saturate_cast(np_op("power", img.data[i], value.v), "float32")],
               <<"opencv">>)
    ELSE Raise(img, "ValueError", <<"opencv">>)

\* power_lut is apply_lut, power_numpy is apply_numpy
power(img, exponent0, inplace) ==
    LET converted(exponent) ==
            IF exponent.kind = "TypeError" THEN Raise(img, "TypeError", <<>>)
            ELSE IF img.dtype = "uint8"
            THEN apply_lut(img, exponent, "power", inplace)
            ELSE IF exponent.kind = "scalar" THEN power_opencv(img, exponent)
            ELSE apply_numpy(img, exponent, "power")
    IN  clipped(img, converted(convert_value(exponent0, get_num_channels(img))))

\* ------------------------------------------------------------------------
\* functions.py: hflip, vflip.  A flip's outcome: err, the result's type,
\* shape and elements, the path taken, and groups, the channel counts of the
\* buffers handed to cv2.flip, in call order
\* ------------------------------------------------------------------------
chunk_size == 512

FlipResult(err, img, data, path, groups) ==
    [err |-> err, dtype |-> img.dtype, shape |-> img.shape, data |-> data,
     path |-> path, groups |-> groups]

\* cv2.flip, by its contract, on the elements of an (H, W, C) array:
\* flip_code 1 reverses the columns, flip_code 0 the rows, of every channel
cv2_flip(shape, data, flip_code) ==
    LET H == shape[1]
        W == shape[2]
        C == shape[3]
        src(h, w, c) == IF flip_code = 1 THEN (h * W + (W - 1 - w)) * C + c + 1
                        ELSE ((H - 1 - h) * W + w) * C + c + 1
    IN  [i \in DOMAIN data |->
            data[src((i - 1) \div (C * W), ((i - 1) \div C) % W, (i - 1) % C)]]

\* a slice that takes its channels in reverse order
ChannelSlice_reversed(shape, data, lo, hi) ==
    [j \in 1..(shape[1] * shape[2] * (hi - lo)) |->
        data[((j - 1) \div (hi - lo)) * shape[3] + lo
             + (hi - lo - 1 - ((j - 1) % (hi - lo))) + 1]]

\* img[:, :, lo:hi] of an (H, W, C) array
ChannelSlice(shape, data, lo, hi) ==
    [j \in 1..(shape[1] * shape[2] * (hi - lo)) |->
        data[((j - 1) \div (hi - lo)) * shape[3] + lo + ((j - 1) % (hi - lo)) + 1]]

\* np.concatenate(chunks, axis=2) of arrays (H, W, widths[k]), element by
\* element: chunk k starts at the channel where chunk k - 1 ended
RECURSIVE ChunkEnd(_, _)
ChunkEnd(widths, k) == IF k = 0 THEN 0 ELSE widths[k] + ChunkEnd(widths, k - 1)

np_concatenate(pixels, widths, chunks) ==
    LET total == ChunkEnd(widths, Len(widths))
        at(c) == CHOOSE k \in DOMAIN widths :
                     ChunkEnd(widths, k - 1) <= c /\ c < ChunkEnd(widths, k)
        pick(k, pixel, c) ==
            chunks[k][pixel * widths[k] + (c - ChunkEnd(widths, k - 1)) + 1]
    IN  IF \E k \in DOMAIN chunks : chunks[k] = <<>> THEN <<>>
        ELSE [i \in 1..(pixels * total) |->
                pick(at((i - 1) % total), (i - 1) \div total, (i - 1) % total)]

\* the chunks are taken along axis 2, flipped one by one and concatenated
\* along axis 2; cv2.flip takes arrays of at most 3 dimensions
_flip_multichannel(img, flip_code) ==
    LET num_channels == img.shape[3]
        K == (num_channels + chunk_size - 1) \div chunk_size
        lo(k) == (k - 1) * chunk_size
        hi(k) == IF k * chunk_size < num_channels THEN k * chunk_size
                 ELSE num_channels
    IN  IF Len(img.shape) > 3
        THEN FlipResult("cv2.error", img, <<>>, <<"chunked">>, <<>>)
        ELSE FlipResult("", img,
                        np_concatenate(
                            img.shape[1] * img.shape[2],
                            [k \in 1..K |-> hi(k) - lo(k)],
                            [k \in 1..K |->
                                cv2_flip(<<img.shape[1], img.shape[2], hi(k) - lo(k)>>,
                                         ChannelSlice(img.shape, img.data,
                                                      lo(k), hi(k)),
                                         flip_code)]),
                        <<"chunked">>, [k \in 1..K |-> hi(k) - lo(k)])

\* hflip_cv2 (flip_code 1) and vflip_cv2 (flip_code 0) on an array of 3 or
\* more dimensions; an array of more than 3 dimensions, or of more than 512
\* channels, is not one cv2.flip takes.  preserve_channel_dim gives the
\* result of a one-channel image its last axis back, so that the result has
\* the image's shape
flip_cv2(img, flip_code) ==
    IF Len(img.shape) > 2 /\ img.shape[3] > chunk_size
    THEN _flip_multichannel(img, flip_code)
    ELSE IF Len(img.shape) > 3 \/ img.shape[Len(img.shape)] > chunk_size
    THEN FlipResult("cv2.error", img, <<>>, <<"direct">>, <<>>)
    ELSE FlipResult("", img, cv2_flip(img.shape, img.data, flip_code),
                    <<"direct">>, <<img.shape[3]>>)

hflip(img) == flip_cv2(img, 1)

vflip(img) == flip_cv2(img, 0)

\* ------------------------------------------------------------------------
\* utils.py: maybe_process_in_chunks.  The wrapped routine flips the columns
\* of every channel; keeps_axis tells whether it returns a one-channel
\* (H, W, 1) array as (H, W, 1), as numpy code does, or as (H, W), as the
\* OpenCV functions do.  A chunk is its shape and its elements
\* ------------------------------------------------------------------------
process_fn(shape, data, keeps_axis) ==
    [shape |-> IF shape[3] = 1 /\ ~keeps_axis THEN <<shape[1], shape[2]>>
               ELSE shape,
     data |-> cv2_flip(shape, data, 1)]

\* np.expand_dims(chunk, -1)
expand_dims(chunk) == [chunk EXCEPT !.shape = Append(chunk.shape, 1)]

\* np.atleast_3d of an array of 2 or more dimensions
atleast_3d(chunk) ==
    IF Len(chunk.shape) = 2 THEN [chunk EXCEPT !.shape = Append(chunk.shape, 1)]
    ELSE chunk

\* the chunks in the order the loop over index appends them: each is the
\* channels lo..hi-1 and whether expand_dims is applied to what the routine
\* returned for it
RECURSIVE chunk_list(_, _)
chunk_list(index, num_channels) ==
    IF index >= num_channels THEN <<>>
    ELSE IF num_channels - index = TWO
    THEN <<[lo |-> index, hi |-> index + 1, expand |-> TRUE],
           [lo |-> index + 1, hi |-> index + 2, expand |-> TRUE]>>
         \o chunk_list(index + 4, num_channels)
    ELSE <<[lo |-> index,
            hi |-> IF index + 4 < num_channels THEN index + 4 ELSE num_channels,
            expand |-> FALSE]>>
         \o chunk_list(index + 4, num_channels)

\* np.dstack: np.concatenate along axis 2 of the chunks made at least 3-D,
\* which raises unless all have one number of dimensions and agree on the
\* other axes
np_dstack(img, chunks, groups) ==
    LET arrs == [k \in DOMAIN chunks |-> atleast_3d(chunks[k])]
        agree(a, b) ==
            /\ Len(a.shape) = Len(b.shape)
            /\ \A d \in DOMAIN a.shape : d # 3 => a.shape[d] = b.shape[d]
        widths == [k \in DOMAIN arrs |-> arrs[k].shape[3]]
    IN  IF \E k \in DOMAIN arrs : ~agree(arrs[1], arrs[k])
        THEN FlipResult("ValueError", img, <<>>, <<"chunked">>, groups)
        ELSE [FlipResult("", img,
                         np_concatenate(img.shape[1] * img.shape[2], widths,
                                        [k \in DOMAIN arrs |-> arrs[k].data]),
                         <<"chunked">>, groups)
                 EXCEPT !.shape = [arrs[1].shape EXCEPT
                                      ![3] = ChunkEnd(widths, Len(widths))]]

maybe_process_in_chunks(img, keeps_axis) ==
    LET num_channels == img.shape[Len(img.shape)]
        list == chunk_list(0, num_channels)
        done(c) == process_fn(<<img.shape[1], img.shape[2], c.hi - c.lo>>,
                              ChannelSlice(img.shape, img.data, c.lo, c.hi),
                              keeps_axis)
        whole == process_fn(img.shape, img.data, keeps_axis)
    IN  IF num_channels > MAX_OPENCV_WORKING_CHANNELS
        THEN np_dstack(img,
                       [k \in DOMAIN list |->
                           IF list[k].expand THEN expand_dims(done(list[k]))
                           ELSE done(list[k])],
                       [k \in DOMAIN list |-> <<list[k].lo, list[k].hi>>])
        ELSE [FlipResult("", img, whole.data, <<"direct">>,
                         <<<<0, num_channels>>>>)
                 EXCEPT !.shape = whole.shape]

\* ------------------------------------------------------------------------
\* Inputs
\* ------------------------------------------------------------------------
MaxChannels == 5    \* the widest image; more than MAX_OPENCV_WORKING_CHANNELS
Width == 2          \* pixels per image
NumSamples == 5     \* element values tried per element type
NumScalars == 9     \* scalar operands tried

ChannelCounts == {1, 3, MaxChannels}

ImageDtypes == {"uint8", "uint16", "uint32", "float32", "float64"}

\* element values per type: both ends of the range, values in between, and
\* for the floating types values outside [0, 1] and beyond the integer ranges
SampleSeq(dtype) ==
    CASE dtype = "uint8"  -> <<DyInt(100), DyInt(0), DyInt(3), DyInt(255),
                               DyInt(200), DyInt(77)>>
      [] dtype = "uint16" -> <<DyInt(300), DyInt(0), DyInt(3), DyInt(65535),
                               DyInt(40000), DyInt(1000)>>
      [] dtype = "uint32" -> <<DyInt(70000), DyInt(0), UInt32Max,
                               DyMul(DyInt(30000001), DyInt(100)), DyInt(3),
                               DyInt(16777217)>>
      [] dtype = "float32" -> <<Dy(1, -2), DyInt(0), DyInt(1), Dy(-1, -1),
                                Dy(1, 32), Dy(3, -1)>>
      [] OTHER             -> <<Dy(1, -2), DyInt(0), DyInt(1), Dy(-1, -1),
                                Dy(601, -1), Dy(1, 33)>>

Image(dtype, C, k) ==
    Arr(dtype, <<1, Width, C>>,
        [i \in 1..(Width * C) |-> SampleSeq(dtype)[((k + i - 2) % NumSamples) + 1]])

Images == {Image(d, C, k) : d \in ImageDtypes, C \in ChannelCounts, k \in 1..NumSamples}

\* 0, 2, 3, 1/2, -3/2, 300, -300, 3/2, 1 + 2^-30 (not a float32), 5/4
ScalarSeq ==
    <<DyInt(0), DyInt(2), DyInt(3), Dy(1, -1), Dy(-3, -1), DyInt(300),
      DyInt(-300), Dy(3, -1), Dy(1073741825, -30), Dy(5, -2)>>

Scalars == {ScalarSeq[j] : j \in 1..NumScalars}

\* a per-channel vector: the scalars in turn, from the k-th
Vector(n, k) == [c \in 1..n |-> ScalarSeq[((k + c - 2) % NumScalars) + 1]]

\* what a caller may pass as the operand of an arithmetic operation on img
Operands(img) ==
    LET C == get_num_channels(img)
    IN  {Py(v, "float") : v \in Scalars}
        \cup {Py(v, "int") : v \in {w \in Scalars : DyIsInt(w)}}
        \cup {NpScalar("float32", DyRoundBits(v, 24)) : v \in {ScalarSeq[1], ScalarSeq[4]}}
        \cup {NdArray("float64", <<>>, <<ScalarSeq[3]>>),
              NdArray("float64", <<1>>, <<ScalarSeq[1]>>),
              NdArray("float64", <<C>>, Vector(C, 2)),
              NdArray("float32", <<C>>, Vector(C, 4)),
              NdArray("float64", <<2>>, Vector(2, 5)),
              NdArray("float32", img.shape, Vector(Size(img.shape), 1)),
              NdArray("uint8", img.shape, Vector(Size(img.shape), 2)),
              Other}

\* the operands tried where a call takes two
FewOperands(img) ==
    LET C == get_num_channels(img)
    IN  {Py(ScalarSeq[j], "float") : j \in {1, 2, 4, 5}}
        \cup {NdArray("float64", <<1>>, <<ScalarSeq[1]>>),
              NdArray("float64", <<C>>, Vector(C, 2)),
              Other}

Builds == [cast : {"wrap", "saturate"}, nep50 : BOOLEAN]

\* images with one pixel far from the others: enough pixels for that pixel
\* to lie more than 20 standard deviations from the mean.  Channel 1 is 1 at
\* the first pixel and 0 elsewhere, the other channels the reverse
OutlierPixels == 420

Outlier(dtype, C) ==
    Arr(dtype, <<1, OutlierPixels, C>>,
        [i \in 1..(OutlierPixels * C) |->
            IF (i <= C) = (Chan(i, C) = 1) THEN DyInt(1) ELSE DyZero])

Outliers == {Outlier(d, C) : d \in {"uint8", "uint16", "float32"}, C \in {1, 3}}

\* ------------------------------------------------------------------------
\* The caller: one call on a fresh image
\* ------------------------------------------------------------------------
Init ==
    /\ build \in Builds
    /\ \E img \in Images : heap = (1 :> img)
    /\ call = [op |-> "none"]
    /\ ret = [err |-> "", id |-> 0, path |-> <<>>]

\* the call c on the buffer src returns (or raises) r; a buffer it allocated
\* gets the id dst
FinishAt(c, r, src, dst) ==
    /\ call' = c
    /\ ret' = [err |-> r.err,
               id |-> IF r.err # "" THEN 0 ELSE IF r.same THEN src ELSE dst,
               path |-> r.path]
    /\ heap' = LET h0 == IF "img2" \in DOMAIN c THEN heap @@ (2 :> c.img2)
                         ELSE heap
                   h  == [h0 EXCEPT ![src].data = r.mem]
               IN  IF r.err = "" /\ ~r.same
                   THEN h @@ (dst :> Arr(r.dtype, r.shape, r.data))
                   ELSE h
    /\ UNCHANGED build

Finish(c, r) == FinishAt(c, r, 1, 3)

ClipTargets == {"uint8", "uint16", "uint32", "float16", "float32", "float64"}

Clip ==
    /\ call.op = "none"
    /\ \E dtype \in ClipTargets, inplace \in BOOLEAN :
          Finish([op |-> "clip", img |-> heap[1], dtype |-> dtype,
                  inplace |-> inplace],
                 clip(heap[1], dtype, inplace))

Add ==
    /\ call.op = "none"
    /\ \E value \in Operands(heap[1]), inplace \in BOOLEAN :
          Finish([op |-> "add", img |-> heap[1], value |-> value,
                  inplace |-> inplace],
                 add(heap[1], value, inplace))

Multiply ==
    /\ call.op = "none"
    /\ \E value \in Operands(heap[1]), inplace \in BOOLEAN :
          Finish([op |-> "multiply", img |-> heap[1], value |-> value,
                  inplace |-> inplace],
                 multiply(heap[1], value, inplace))

MultiplyAdd ==
    /\ call.op = "none"
    /\ \E factor \in FewOperands(heap[1]), value \in FewOperands(heap[1]),
          inplace \in BOOLEAN :
          Finish([op |-> "multiply_add", img |-> heap[1], factor |-> factor,
                  value |-> value, inplace |-> inplace],
                 multiply_add(heap[1], factor, value, inplace))

\* weights are 0, 1 and 2: sums of integers stay integers, so no result
\* depends on how the primitive breaks ties
Weights == {DyInt(0), DyInt(1), DyInt(2)}

\* second images: every element type, of the image's shape or another
Seconds == {Image(d, C, 1) : d \in ImageDtypes, C \in ChannelCounts}

AddWeighted ==
    /\ call.op = "none"
    /\ \E img2 \in Seconds, weight1 \in Weights, weight2 \in Weights \ {DyInt(2)} :
          Finish([op |-> "add_weighted", img |-> heap[1], weight1 |-> weight1,
                  img2 |-> img2, weight2 |-> weight2],
                 add_weighted(heap[1], weight1, img2, weight2))

\* max_value left out, given as the type's own maximum, or given as 1000
MaxValues(img) == {None, Given(MAX_VALUES_BY_DTYPE[img.dtype]), Given(DyInt(1000))}

ToFloat ==
    /\ call.op = "none"
    /\ \E max_value \in MaxValues(heap[1]) :
          Finish([op |-> "to_float", img |-> heap[1], max_value |-> max_value],
                 to_float(heap[1], max_value))

\* the caller converts what to_float returned back to the image's type, with
\* the same max_value
FromFloatBack ==
    /\ call.op = "to_float"
    /\ ret.err = ""
    /\ FinishAt([op |-> "from_float", img |-> heap[ret.id],
                 target_dtype |-> call.img.dtype, max_value |-> call.max_value,
                 origin |-> call.img],
                from_float(heap[ret.id], call.img.dtype, call.max_value),
                ret.id, 4)

\* element types that are not keys of MAX_VALUES_BY_DTYPE
UnrecognisedDtypes == {"int16", "int64"}

\* the exception get_max_value raises for them
UnsupportedDtype == "RuntimeError"

\* images of those types (small non-negative values fit both)
UnrecognisedImages ==
    {Arr(d, <<1, Width, C>>, Image("uint8", C, k).data) :
        d \in UnrecognisedDtypes, C \in ChannelCounts, k \in 1..NumSamples}

InitAnyDtype ==
    /\ build \in Builds
    /\ \E img \in Images \cup UnrecognisedImages : heap = (1 :> img)
    /\ call = [op |-> "none"]
    /\ ret = [err |-> "", id |-> 0, path |-> <<>>]

\* clip to a type the table does not list
ClipUnrecognised ==
    /\ call.op = "none"
    /\ \E dtype \in UnrecognisedDtypes, inplace \in BOOLEAN :
          Finish([op |-> "clip", img |-> heap[1], dtype |-> dtype,
                  inplace |-> inplace],
                 clip(heap[1], dtype, inplace))

\* to_float of an image whose type the table does not list
ToFloatUnrecognised ==
    /\ call.op = "none"
    /\ heap[1].dtype \in UnrecognisedDtypes
    /\ \E max_value \in {None, Given(DyInt(1000))} :
          Finish([op |-> "to_float", img |-> heap[1], max_value |-> max_value],
                 to_float(heap[1], max_value))

\* from_float of a floating image to a type the table does not list
FromFloatUnrecognised ==
    /\ call.op = "none"
    /\ IsFloat(heap[1].dtype)
    /\ \E target_dtype \in UnrecognisedDtypes,
          max_value \in {None, Given(DyInt(1000))} :
          Finish([op |-> "from_float", img |-> heap[1],
                  target_dtype |-> target_dtype, max_value |-> max_value,
                  origin |-> heap[1]],
                 from_float(heap[1], target_dtype, max_value))

\* add of a scalar to an image whose type the table does not list
AddUnrecognised ==
    /\ call.op = "none"
    /\ heap[1].dtype \in UnrecognisedDtypes
    /\ \E value \in {Py(v, "float") : v \in Scalars} \cup {Other},
          inplace \in BOOLEAN :
          Finish([op |-> "add", img |-> heap[1], value |-> value,
                  inplace |-> inplace],
                 add(heap[1], value, inplace))

Float32Io ==
    /\ call.op = "none"
    /\ Finish([op |-> "float32_io", img |-> heap[1]], float32_io(heap[1]))

Uint8Io ==
    /\ call.op = "none"
    /\ Finish([op |-> "uint8_io", img |-> heap[1]], uint8_io(heap[1]))

\* images for the flips: FlipSide rows and columns, channel counts around
\* the limit of 512, and batches and volumes whose axis 2 is not the channel
\* axis; the elements differ from their neighbours
FlipSide == 2

FlipShapes ==
    {<<FlipSide, FlipSide, C>> : C \in {1, 2, 3, 512, 513, 514}}
    \cup {<<1, FlipSide, FlipSide, 3>>, <<1, 1, 513, 2>>, <<1, FlipSide, FlipSide, 513>>,
          <<1, 1, FlipSide, FlipSide, 3>>, <<1, 1, 513, 1, 2>>}

FlipImages ==
    {Arr(d, shape, [i \in 1..Size(shape) |-> DyInt((i * 7) % 251)]) :
        d \in {"uint8", "float32"}, shape \in FlipShapes}

InitFlip ==
    /\ build \in Builds
    /\ \E img \in FlipImages : heap = (1 :> img)
    /\ call = [op |-> "none"]
    /\ ret = [err |-> "", id |-> 0, path |-> <<>>]

\* the call c returns (or raises) r; a flip allocates its result
FinishFlip(c, r) ==
    /\ call' = c
    /\ ret' = [err |-> r.err, id |-> IF r.err # "" THEN 0 ELSE 3,
               path |-> r.path, groups |-> r.groups]
    /\ heap' = IF r.err = "" THEN heap @@ (3 :> Arr(r.dtype, r.shape, r.data))
               ELSE heap
    /\ UNCHANGED build

Hflip ==
    /\ call.op = "none"
    /\ FinishFlip([op |-> "hflip", img |-> heap[1]], hflip(heap[1]))

Vflip ==
    /\ call.op = "none"
    /\ FinishFlip([op |-> "vflip", img |-> heap[1]], vflip(heap[1]))

\* images for chunked execution: every channel count up to MaxChunkChannels
MaxChunkChannels == 10

ChunkImages ==
    {Arr(d, <<FlipSide, FlipSide, C>>,
         [i \in 1..(FlipSide * FlipSide * C) |-> DyInt((i * 7) % 251)]) :
        d \in {"uint8", "float32"}, C \in 1..MaxChunkChannels}

InitChunks ==
    /\ build \in Builds
    /\ \E img \in ChunkImages : heap = (1 :> img)
    /\ call = [op |-> "none"]
    /\ ret = [err |-> "", id |-> 0, path |-> <<>>]

ProcessInChunks ==
    /\ call.op = "none"
    /\ \E keeps_axis \in BOOLEAN :
          FinishFlip([op |-> "maybe_process_in_chunks", img |-> heap[1],
                      keeps_axis |-> keeps_axis],
                     maybe_process_in_chunks(heap[1], keeps_axis))

InitPerImage ==
    /\ build \in Builds
    /\ \E img \in Images \cup Outliers : heap = (1 :> img)
    /\ call = [op |-> "none"]
    /\ ret = [err |-> "", id |-> 0, path |-> <<>>]

\* a kind that is none of the four
UnknownNormalization == "median"

\* the caller passes its image as it is (H, W, C), or as a batch of one
\* (1, H, W, C): a view of the same buffer
NormalizePerImage ==
    /\ call.op = "none"
    /\ \E normalization \in NormalizationTypes \cup {UnknownNormalization},
          batch \in BOOLEAN :
          LET img == IF batch
                     THEN Arr(heap[1].dtype, <<1>> \o heap[1].shape, heap[1].data)
                     ELSE heap[1]
          IN  Finish([op |-> "normalize_per_image", img |-> img,
                      normalization |-> normalization],
                     normalize_per_image(img, normalization))

\* convert_value on its own: the operand forms of the arithmetic operations
\* and a numpy integer scalar, a rank-0 integer array, an empty vector and a
\* vector longer than any image has channels; an array operand is the
\* caller's buffer 2
ConvertValue ==
    /\ call.op = "none"
    /\ \E num_channels \in ChannelCounts :
       \E value \in Operands(heap[1])
                     \cup {NpScalar("int32", ScalarSeq[2]),
                           NpScalar("float64", ScalarSeq[4]),
                           NdArray("int64", <<>>, <<ScalarSeq[3]>>),
                           NdArray("float64", <<0>>, <<>>),
                           NdArray("float64", <<MaxChannels + 1>>,
                                   Vector(MaxChannels + 1, 3))} :
          /\ call' = [op |-> "convert_value", value |-> value,
                      num_channels |-> num_channels]
          /\ ret' = [err |-> IF convert_value(value, num_channels).kind
                                 \in {"TypeError", "IndexError"}
                             THEN convert_value(value, num_channels).kind
                             ELSE "",
                     id |-> 0, path |-> <<>>,
                     value |-> convert_value(value, num_channels)]
          /\ heap' = IF value.kind = "array"
                     THEN heap @@ (2 :> Arr(value.dtype, value.shape, value.data))
                     ELSE heap
          /\ UNCHANGED build

Normalize ==
    /\ call.op = "none"
    /\ \E mean \in FewOperands(heap[1]), denominator \in FewOperands(heap[1]) :
          Finish([op |-> "normalize", img |-> heap[1], mean |-> mean,
                  denominator |-> denominator],
                 normalize(heap[1], mean, denominator))

\* exponents 0, 2 and 3, as one number, one per channel or one per element
Exponents(img) ==
    {Py(ScalarSeq[j], "float") : j \in 1..3}
    \cup {NdArray("float64", <<get_num_channels(img)>>,
                  [c \in 1..get_num_channels(img) |-> ScalarSeq[(c % 3) + 1]]),
          NdArray("float64", img.shape,
                  [i \in DOMAIN img.data |-> ScalarSeq[(i % 3) + 1]]),
          Other}

Power ==
    /\ call.op = "none"
    /\ \E exponent \in Exponents(heap[1]), inplace \in BOOLEAN :
          Finish([op |-> "power", img |-> heap[1], exponent |-> exponent,
                  inplace |-> inplace],
                 power(heap[1], exponent, inplace))

Next ==
    \/ Clip \/ Add \/ Multiply \/ MultiplyAdd \/ AddWeighted
    \/ ToFloat \/ FromFloatBack
    \/ ClipUnrecognised \/ ToFloatUnrecognised \/ FromFloatUnrecognised
    \/ NormalizePerImage
    \/ ConvertValue
    \/ Normalize \/ Power
    \/ AddUnrecognised
    \/ Float32Io \/ Uint8Io
    \/ Hflip \/ Vflip
    \/ ProcessInChunks

Spec == Init /\ [][Next]_vars
SpecClip == Init /\ [][Clip]_vars
SpecAdd == Init /\ [][Add]_vars
SpecMultiply == Init /\ [][Multiply]_vars
SpecMultiplyAdd == Init /\ [][MultiplyAdd]_vars
SpecAddWeighted == Init /\ [][AddWeighted]_vars
SpecRoundTrip == Init /\ [][ToFloat \/ FromFloatBack]_vars
SpecNormalizePerImage == InitPerImage /\ [][NormalizePerImage]_vars
SpecUnrecognised ==
    InitAnyDtype
    /\ [][ClipUnrecognised \/ ToFloatUnrecognised \/ FromFloatUnrecognised]_vars
SpecConvertValue == Init /\ [][ConvertValue]_vars
SpecAddUnrecognised == InitAnyDtype /\ [][AddUnrecognised]_vars
SpecWrappers == Init /\ [][Float32Io \/ Uint8Io]_vars
SpecPower == Init /\ [][Power]_vars
SpecFlip == InitFlip /\ [][Hflip \/ Vflip]_vars

SpecChunks == InitChunks /\ [][ProcessInChunks]_vars
\* the operations together (multiply and normalize_per_image have their own
\* specifications above)
SpecOperations ==
    Init /\ [][Clip \/ Add \/ MultiplyAdd \/ AddWeighted \/ ToFloat
               \/ FromFloatBack \/ Normalize \/ Power]_vars

\* ------------------------------------------------------------------------
\* Properties
\* ------------------------------------------------------------------------
Returned == call.op # "none" /\ ret.err = ""
Result == heap[ret.id]

\* C1: clip(img, T) never raises for a recognised T; its result has type T,
\* every element lies in [0, max(T)], and an element above max(T) comes out as
\* max(T), one below 0 as 0
C1_ClipSaturates ==
    call.op = "clip" =>
        /\ ret.err = ""
        /\ Result.dtype = call.dtype
        /\ \A i \in DOMAIN call.img.data :
              LET x == call.img.data[i]
                  y == Result.data[i]
                  m == MAX_VALUES_BY_DTYPE[call.dtype]
              IN  /\ DyLe(DyZero, y) /\ DyLe(y, m)
                  /\ DyLt(m, x) => y = m
                  /\ x.neg => y = DyZero

\* C2: add(img, v) with v canonicalising to the scalar 0 returns the caller's
\* buffer itself, unchanged, and allocates nothing, whatever inplace is
C2_AddZeroReturnsInput ==
    (/\ call.op = "add"
     /\ convert_value(call.value, get_num_channels(call.img)).kind = "scalar"
     /\ DyIsZero(convert_value(call.value, get_num_channels(call.img)).v))
    => /\ ret.err = ""
       /\ ret.id = 1
       /\ heap = (1 :> call.img)

C2_Witness ==
    /\ call.op = "add"
    /\ call.value = Py(DyZero, "float")
    /\ ~call.inplace
    /\ call.img.dtype = "uint8"
    /\ ret.id = 1

\* C3: for a uint8 image of any channel count and any scalar v, add(img, v)
\* returns a uint8 buffer with every element min(255, max(0, x + trunc(v))),
\* and never raises
C3_AddScalarClamps ==
    (call.op = "add" /\ call.img.dtype = "uint8" /\ call.value.kind = "scalar")
    => /\ ret.err = ""
       /\ Result.dtype = "uint8"
       /\ \A i \in DOMAIN call.img.data :
             Result.data[i] =
                 DyMin(DyInt(255),
                       DyMax(DyZero, DyAdd(call.img.data[i], DyTrunc(call.value.v))))

\* the scalar a call's operand canonicalises to (only where it does)
IsScalarCall ==
    convert_value(call.value, get_num_channels(call.img)).kind = "scalar"
ScalarOf == convert_value(call.value, get_num_channels(call.img))

\* C4: for a uint8 image and a scalar k, multiply returns exactly what the
\* float path (multiply_numpy) gives after the same clip; 100 becomes 200
\* under k = 2 and 255 under k = 3
C4_LutEqualsNumpy ==
    (call.op = "multiply" /\ call.img.dtype = "uint8" /\ IsScalarCall)
    => /\ ret.err = ""
       /\ Result.dtype = "uint8"
       /\ Result.data = clipped(call.img, multiply_numpy(call.img, ScalarOf)).data
       /\ \A i \in DOMAIN call.img.data :
             call.img.data[i] = DyInt(100) =>
                /\ ScalarOf.v = DyInt(2) => Result.data[i] = DyInt(200)
                /\ ScalarOf.v = DyInt(3) => Result.data[i] = DyInt(255)

C4_Witness ==
    /\ call.op = "multiply" /\ call.img.dtype = "uint8"
    /\ call.value = Py(DyInt(3), "float")
    /\ ret.path = <<"lut">>
    /\ \E i \in DOMAIN call.img.data :
          call.img.data[i] = DyInt(100) /\ Result.data[i] = DyInt(255)

\* C5: a result written into an integer-typed buffer is the real-valued
\* result rounded to nearest, ties to even, then clamped: for an integer
\* image and a scalar k, multiply gives clamp(round_half_even(x * k), 0, max)
C5_RoundsHalfEven ==
    (/\ call.op = "multiply" /\ ~IsFloat(call.img.dtype) /\ IsScalarCall
     /\ ret.err = "")
    => /\ Result.dtype = call.img.dtype
       /\ \A i \in DOMAIN call.img.data :
             Result.data[i] =
                 DyMin(MAX_VALUES_BY_DTYPE[call.img.dtype],
                       DyMax(DyZero, DyRint(DyMul(call.img.data[i], ScalarOf.v))))

\* C6: multiply_add(img, 0, 0) returns a buffer of img's shape and type with
\* every element 0, for every element type, channel count and inplace flag
C6_ZeroZeroGivesZeros ==
    (/\ call.op = "multiply_add"
     /\ convert_value(call.factor, get_num_channels(call.img)) = Py(DyZero, "float")
     /\ convert_value(call.value, get_num_channels(call.img)) = Py(DyZero, "float"))
    => /\ ret.err = ""
       /\ Result.dtype = call.img.dtype
       /\ Result.shape = call.img.shape
       /\ \A i \in DOMAIN Result.data : Result.data[i] = DyZero

C6_Witness ==
    /\ call.op = "multiply_add"
    /\ call.factor = Py(DyZero, "float") /\ call.value = Py(DyZero, "float")
    /\ call.img.dtype = "uint16" /\ get_num_channels(call.img) = 3
    /\ \E i \in DOMAIN call.img.data : ~DyIsZero(call.img.data[i])
    /\ ret.id = 3
    /\ \A i \in DOMAIN Result.data : Result.data[i] = DyZero

\* the operand's entry for the channel of element i
EntryAt(x, i, C) == IF x.kind = "scalar" THEN x.v ELSE x.data[Chan(i, C)]

\* C7: on an image of a non-8-bit type, multiply_add takes factor and value
\* each as a scalar or as a per-channel vector and returns the clipped
\* factor * x + value without raising; the steps skipped for factor = 0 or
\* value = 0 leave the elements as the full formula (float32 product, float32
\* sum, clip to the image's type) gives them
C7_ScalarAndVectorForms ==
    LET C == get_num_channels(call.img)
        factor == convert_value(call.factor, C)
        value  == convert_value(call.value, C)
        full(i) == DyRoundBits(
                     DyAdd(DyRoundBits(
                             DyMul(astype(call.img.data[i], call.img.dtype, "float32"),
                                   DyRoundBits(EntryAt(factor, i, C), 24)), 24),
                           DyRoundBits(EntryAt(value, i, C), 24)), 24)
    IN  (/\ call.op = "multiply_add" /\ call.img.dtype # "uint8"
         /\ factor.kind \in {"scalar", "array"}
         /\ value.kind \in {"scalar", "array"})
        => /\ ret.err = ""
           /\ Result.dtype = call.img.dtype
           /\ Result.data =
                clip(Arr("float32", call.img.shape,
                         [i \in DOMAIN call.img.data |-> full(i)]),
                     call.img.dtype, FALSE).data

\* C8: add_weighted on images of different shapes raises ValueError before
\* anything is converted or combined: no backend step ran, no buffer was
\* allocated, both images are as they were
C8_ShapeMismatchRaisesFirst ==
    (call.op = "add_weighted" /\ call.img.shape # call.img2.shape)
    => /\ ret.err = "ValueError"
       /\ ret.path = <<>>
       /\ heap = (1 :> call.img) @@ (2 :> call.img2)

C8_Witness ==
    /\ call.op = "add_weighted"
    /\ call.img.shape # call.img2.shape
    /\ call.img.dtype = "uint8" /\ call.img2.dtype = "uint16"
    /\ ret.err = "ValueError"

\* C9: when img2's type differs from img1's, add_weighted combines img1 with
\* img2 range-clipped (saturated) to [0, max] of img1's type: the result is
\* the one for the clipped second image, and 300 going into a uint8
\* combination counts as 255
C9_SecondOperandSaturated ==
    (/\ call.op = "add_weighted" /\ call.img.shape = call.img2.shape
     /\ call.img2.dtype # call.img.dtype /\ ret.err = "")
    => /\ Result.data =
            add_weighted(call.img, call.weight1,
                         Arr(call.img.dtype, call.img2.shape,
                             clip(call.img2, call.img.dtype, FALSE).data),
                         call.weight2).data
       /\ \A i \in DOMAIN call.img.data :
             (/\ call.img.dtype = "uint8" /\ call.img2.data[i] = DyInt(300)
              /\ call.weight1 = DyZero /\ call.weight2 = DyInt(1))
             => Result.data[i] = DyInt(255)

\* C10: for an image of an integer type T, from_float(to_float(img, m), T, m)
\* with the same max_value m, given or left to T, has type T and every
\* element within 1 of the original
C10_RoundTripWithinOne ==
    (call.op = "from_float" /\ ~IsFloat(call.origin.dtype))
    => /\ ret.err = ""
       /\ Result.dtype = call.origin.dtype
       /\ \A i \in DOMAIN call.origin.data :
             /\ DyLe(DySub(Result.data[i], call.origin.data[i]), DyInt(1))
             /\ DyLe(DySub(call.origin.data[i], Result.data[i]), DyInt(1))

\* C11: a type that MAX_VALUES_BY_DTYPE does not list fails with the same
\* exception, the one get_max_value raises, in clip, in to_float and in
\* from_float without max_value; from_float with a max_value given does not
\* fail with another exception for such a target
C11_SameUnsupportedDtype ==
    /\ (call.op = "clip" /\ call.dtype \in UnrecognisedDtypes)
       => ret.err = UnsupportedDtype
    /\ (/\ call.op = "to_float" /\ call.img.dtype \in UnrecognisedDtypes
        /\ ~call.max_value.given)
       => ret.err = UnsupportedDtype
    /\ (call.op = "from_float" /\ call.target_dtype \in UnrecognisedDtypes)
       => IF call.max_value.given THEN ret.err \in {"", UnsupportedDtype}
          ELSE ret.err = UnsupportedDtype

SameOutcome(r) ==
    /\ r.err = ret.err
    /\ ret.err = "" => r.dtype = Result.dtype /\ r.data = Result.data

\* C13: on a single-channel image of any type and rank, normalize_per_image
\* gives for "image_per_channel" what it gives for "image", and for
\* "min_max_per_channel" what it gives for "min_max"
C13_SingleChannelDegrades ==
    (/\ call.op = "normalize_per_image"
     /\ get_num_channels(call.img) = 1
     /\ call.normalization \in {"image_per_channel", "min_max_per_channel"})
    => SameOutcome(normalize_per_image(
                       call.img,
                       IF call.normalization = "image_per_channel" THEN "image"
                       ELSE "min_max"))

\* C14: convert_value turns a scalar (Python or numpy) and a rank-0 array
\* into a scalar of the same value, returns an array of rank above 1 as it
\* is, turns a vector of length 1, any vector when there is one channel, and
\* a vector shorter than the channel count into its first element as a
\* scalar, and a longer vector into the vector of its first C entries; every
\* other operand fails with TypeError; the operand's buffer is left as it was
C14_Canonicalizes ==
    call.op = "convert_value" =>
        LET value == call.value
            C == call.num_channels
            rank == Len(value.shape)
        IN  /\ IF value.kind \in {"scalar", "npscalar"}
               THEN ret.err = "" /\ ret.value.kind = "scalar"
                    /\ ret.value.v = value.v
               ELSE IF value.kind # "array" THEN ret.err = "TypeError"
               ELSE IF rank = 0
               THEN ret.err = "" /\ ret.value.kind = "scalar"
                    /\ ret.value.v = value.data[1]
               ELSE IF rank > 1 THEN ret.err = "" /\ ret.value = value
               ELSE IF Len(value.data) = 1 \/ C = 1 \/ Len(value.data) < C
               THEN ret.err = "" /\ ret.value.kind = "scalar"
                    /\ ret.value.v = value.data[1]
               ELSE /\ ret.err = "" /\ ret.value.kind = "array"
                    /\ ret.value.shape = <<C>>
                    /\ ret.value.data = SubSeq(value.data, 1, C)
            /\ value.kind = "array" => heap[2].data = value.data

\* C15: an operation writes no buffer of the caller's unless it was called
\* with inplace = TRUE, and then only the image it was given: without the
\* flag the image holds what it held before the call, and a second operand
\* and the image a round trip started from are never changed
InPlaceAsked == "inplace" \in DOMAIN call /\ call.inplace

C16_FailsBeforeWriting ==
    call.op # "none" /\ ret.err # "" => heap[1].data = call.img.data

\* C17: what a function wrapped by float32_io or uint8_io returns has the
\* element type of the image the wrapper was given, for uint8, uint16, float32
\* and float64 images
C17_WrapperRestoresDtype ==
    /\ call.op \in {"float32_io", "uint8_io"}
    /\ call.img.dtype \in {"uint8", "uint16", "float32", "float64"}
    /\ Returned
    => Result.dtype = call.img.dtype

\* the operand of the call as convert_value hands it to the dispatcher
Converted == convert_value(call.value, get_num_channels(call.img))

C19_MultiplyUint8Lut ==
    call.op = "multiply" /\ call.img.dtype = "uint8" /\ ret.path # <<>> =>
        ret.path = <<"lut">>

\* C19, amended: a multiply of an 8-bit image takes the table for a scalar
\* and for a per-channel vector, with one table row per channel for the
\* vector, and goes to OpenCV for a full array
C19_MultiplyUint8ByOperand ==
    call.op = "multiply" /\ call.img.dtype = "uint8" /\ ret.path # <<>> =>
        IF Converted.kind = "array" /\ Len(Converted.shape) > 1
        THEN ret.path = <<"opencv">>
        ELSE /\ ret.path = <<"lut">>
             /\ Converted.kind = "array" =>
                   create_lut_array("uint8", Converted, "multiply").shape
                       = <<get_num_channels(call.img), 256>>

\* an 8-bit image multiplied by a full array: done by OpenCV
C19_Witness ==
    /\ call.op = "multiply" /\ call.img.dtype = "uint8"
    /\ Converted.kind = "array" /\ Len(Converted.shape) > 1
    /\ Returned /\ ret.path = <<"opencv">>
    /\ Result.data # call.img.data

\* C20 as stated: a multiply of an image that is not 8-bit and reaches a
\* backend is done by numpy when the image is float32, or when the operand is
\* an array and the image has more than 4 channels, and by OpenCV otherwise;
\* OpenCV is never called on more than 4 channels
C20_MultiplyDispatch ==
    call.op = "multiply" /\ call.img.dtype # "uint8" /\ ret.path # <<>> =>
        /\ ret.path = IF \/ call.img.dtype = "float32"
                         \/ /\ Converted.kind = "array"
                            /\ get_num_channels(call.img) > MAX_OPENCV_WORKING_CHANNELS
                      THEN <<"numpy">> ELSE <<"opencv">>
        /\ ret.path = <<"opencv">> =>
              get_num_channels(call.img) <= MAX_OPENCV_WORKING_CHANNELS

\* C20, amended: such a multiply is done by numpy when the operand is a
\* scalar and the image float32, or the operand a per-channel vector and the
\* image has more than 4 channels, and by OpenCV otherwise; on more than 4
\* channels OpenCV is handed a full array, never a scalar
C20_MultiplyDispatchByOperand ==
    call.op = "multiply" /\ call.img.dtype # "uint8" /\ ret.path # <<>> =>
        /\ ret.path = IF \/ Converted.kind = "scalar" /\ call.img.dtype = "float32"
                         \/ /\ Converted.kind = "array" /\ Len(Converted.shape) = 1
                            /\ get_num_channels(call.img) > MAX_OPENCV_WORKING_CHANNELS
                      THEN <<"numpy">> ELSE <<"opencv">>
        /\ /\ ret.path = <<"opencv">>
           /\ get_num_channels(call.img) > MAX_OPENCV_WORKING_CHANNELS
           => prepare_value_opencv(call.img, Converted, "multiply").kind = "array"

\* a float32 image of three channels multiplied by a per-channel vector:
\* done by OpenCV
C20_Witness ==
    /\ call.op = "multiply" /\ call.img.dtype = "float32"
    /\ get_num_channels(call.img) = 3
    /\ Converted.kind = "array" /\ Len(Converted.shape) = 1
    /\ Returned /\ ret.path = <<"opencv">>
    /\ Result.data # call.img.data

\* the exponent of the call as convert_value hands it to the dispatcher
ConvertedExponent == convert_value(call.exponent, get_num_channels(call.img))

\* C21 as stated: power takes the table for an 8-bit image, OpenCV for a
\* scalar exponent on any other type, numpy for a vector exponent on any other
\* type; a failure of the backend is a ValueError, and no image with a scalar
\* exponent fails that way
C21_PowerDispatch ==
    call.op = "power" /\ ConvertedExponent.kind \in {"scalar", "array"} =>
        /\ ret.err \in {"", "ValueError"}
        /\ IF call.img.dtype = "uint8" THEN ret.path = <<"lut">>
           ELSE IF ConvertedExponent.kind = "scalar"
           THEN ret.path = <<"opencv">> /\ ret.err = ""
           ELSE ret.path = <<"numpy">>

\* C21, amended: the dispatch is as stated, but of the images that are not
\* 8-bit only float32 has a backend for a scalar exponent; uint16, uint32 and
\* float64 images with a scalar exponent fail with ValueError, and nothing else
\* fails
C21_PowerDispatchFloat32Only ==
    call.op = "power" /\ ConvertedExponent.kind \in {"scalar", "array"} =>
        IF call.img.dtype = "uint8" THEN ret.path = <<"lut">> /\ ret.err = ""
        ELSE IF ConvertedExponent.kind = "scalar"
        THEN /\ ret.path = <<"opencv">>
             /\ ret.err = IF call.img.dtype = "float32" THEN "" ELSE "ValueError"
        ELSE ret.path = <<"numpy">> /\ ret.err = ""

\* a 16-bit image and a scalar exponent: no backend
C21_Witness ==
    /\ call.op = "power" /\ call.img.dtype = "uint16"
    /\ ConvertedExponent.kind = "scalar"
    /\ ret.err = "ValueError" /\ ret.path = <<"opencv">>
    /\ heap[1] = call.img

\* C22: normalize_per_image runs the table backend for an 8-bit image unless
\* the kind is "min_max", which OpenCV does; numpy for a float32 image when
\* the kind is "image" and OpenCV otherwise; for the other types numpy when
\* the array has more than 3 dimensions and OpenCV when not; and a kind that
\* is none of the four raises, whichever backend was chosen
C22_BackendSelection ==
    call.op = "normalize_per_image" =>
        /\ ret.path =
              IF call.img.dtype = "uint8"
              THEN IF call.normalization = "min_max" THEN <<"opencv">>
                   ELSE <<"lut">>
              ELSE IF call.img.dtype = "float32"
              THEN IF call.normalization = "image" THEN <<"numpy">>
                   ELSE <<"opencv">>
              ELSE IF Len(call.img.shape) > 3 THEN <<"numpy">>
              ELSE <<"opencv">>
        /\ call.normalization \notin NormalizationTypes => ret.err = "ValueError"

\* an 8-bit image and the kind "min_max": done by OpenCV
C22_Witness ==
    /\ call.op = "normalize_per_image" /\ call.img.dtype = "uint8"
    /\ call.normalization = "min_max"
    /\ Returned /\ ret.path = <<"opencv">>
    /\ Result.dtype = "float32"

\* C26: on an 8-bit image, power with an array exponent raises every element
\* to the exponent that belongs to it: the entry at the element's own
\* position of a full array, the entry of the element's channel of a
\* per-channel vector
C26_OperandPerPosition ==
    /\ call.op = "power" /\ call.img.dtype = "uint8"
    /\ ConvertedExponent.kind = "array"
    /\ Returned
    => \A i \in DOMAIN call.img.data :
          Result.data[i] =
              power(Arr("uint8", <<1, 1, 1>>, <<call.img.data[i]>>),
                    Py(ConvertedExponent.data[
                           IF Len(ConvertedExponent.shape) > 1 THEN i
                           ELSE Chan(i, get_num_channels(call.img))],
                       "float"),
                    FALSE).data[1]

\* C23: hflip and vflip call cv2.flip directly when the last axis, the
\* channels, has at most 512 entries and take the chunked path when it has
\* more, for images, batches and volumes alike; what the chunked path returns
\* is the flip of the whole image
C23_FlipDispatch ==
    call.op \in {"hflip", "vflip"} =>
        /\ ret.path = IF call.img.shape[Len(call.img.shape)] > chunk_size
                      THEN <<"chunked">> ELSE <<"direct">>
        /\ Returned /\ ret.path = <<"chunked">> =>
              /\ Result.shape = call.img.shape
              /\ Result.data = cv2_flip(call.img.shape, call.img.data,
                                        IF call.op = "hflip" THEN 1 ELSE 0)

\* C25 as stated: in the chunked flip no buffer of exactly 2 channels is
\* handed to cv2.flip
C25_NoTwoChannelGroup ==
    /\ call.op \in {"hflip", "vflip"}
    /\ Returned /\ ret.path = <<"chunked">>
    => \A k \in DOMAIN ret.groups : ret.groups[k] # 2

\* C25, amended: the chunked flip hands cv2.flip the channels in groups of
\* 512 and one last group of what remains, a remainder of 2 channels as one
\* buffer of 2 channels; the groups come back in their order, so that the
\* result is the flip of the whole image
C25_GroupsOfChunkSize ==
    /\ call.op \in {"hflip", "vflip"}
    /\ Returned /\ ret.path = <<"chunked">>
    => /\ \A k \in DOMAIN ret.groups :
             ret.groups[k] = IF k < Len(ret.groups) THEN chunk_size
                             ELSE get_num_channels(call.img)
                                      - chunk_size * (Len(ret.groups) - 1)
       /\ ret.groups[Len(ret.groups)] \in 1..chunk_size
       /\ Result.shape = call.img.shape
       /\ Result.data = cv2_flip(call.img.shape, call.img.data,
                                 IF call.op = "hflip" THEN 1 ELSE 0)

\* 514 channels: a group of 512 and a group of 2
C25_Witness ==
    /\ call.op = "hflip" /\ get_num_channels(call.img) = chunk_size + 2
    /\ Returned /\ ret.path = <<"chunked">>
    /\ ret.groups = <<chunk_size, 2>>
    /\ Result.data # call.img.data

\* C24: maybe_process_in_chunks on an image of more than 4 channels, with a
\* routine that works on every channel by itself, whether it keeps the last
\* axis of a one-channel group or returns the group as a 2-D array: the
\* groups are the channels 0..C-1 once each and in order, and what comes back
\* is an (H, W, C) array whose channel i is the routine's result for
\* channel i of the image
C24_ChunkedReassembly ==
    /\ call.op = "maybe_process_in_chunks"
    /\ get_num_channels(call.img) > MAX_OPENCV_WORKING_CHANNELS
    => /\ ret.groups[1][1] = 0
       /\ ret.groups[Len(ret.groups)][2] = get_num_channels(call.img)
       /\ \A k \in DOMAIN ret.groups :
             /\ ret.groups[k][1] < ret.groups[k][2]
             /\ k > 1 => ret.groups[k][1] = ret.groups[k - 1][2]
       /\ Returned
       /\ Result.shape = call.img.shape
       /\ Result.data = cv2_flip(call.img.shape, call.img.data, 1)

====
